---- MODULE Spec2Model ----
(***************************************************************************)
(* A model of the cgmd ingestion pipeline (music/management/commands/      *)
(* import_sheerpluck.py) and of the duplicate-reconciliation pass          *)
(* (music/management/commands/deduplicate_works.py), over the relational   *)
(* store declared in music/models.py.                                      *)
(*                                                                         *)
(* Strings are sequences of one-character strings.  Python's None is the   *)
(* empty tuple <<>> and a present value v is the one-element tuple <<v>>.  *)
(***************************************************************************)
EXTENDS Integers, Sequences, FiniteSets, TLC

\* ------------------------------------------------------------------------
\* Bounds of the model.
\* ------------------------------------------------------------------------
\* Rows in the two CSV files together.
MaxRows == 3
\* Invocations of the import command in one behaviour.
MaxRuns == 2
\* Commits that the database may refuse for a cause outside the program.
MaxCommitFaults == 1
\* Work rows in the store when the deduplicator starts.
MaxWorks == 3
\* Invocations of the deduplicator in one behaviour.
MaxDedupRuns == 2
\* Works that another process inserts while the deduplicator runs.
MaxWrites == 1
\* Work-detail requests that may be in flight at once.
MaxRequests == 2
\* Work-detail requests in one behaviour.
MaxRetrievals == 3
\* Merges of a row into the work in one behaviour.
MaxMerges == 2
\* Length of the names given to normalize_name and parse_composer_name.
MaxNameLen == 3
\* Length of the values given to clean_year.
MaxYearLen == 5

\* ------------------------------------------------------------------------
\* Sizes of the program, scaled down so that bounded inputs can exceed
\* them: in the source batch_size is 100, Work.title has max_length 500 and
\* Country.name / InstrumentationCategory.name have max_length 100.
\* ------------------------------------------------------------------------
BatchSize == 2
TitleMaxLength == 2
NameMaxLength == 1

None == <<>>
Some(v) == <<v>>

\* ------------------------------------------------------------------------
\* Strings.
\* ------------------------------------------------------------------------
\* The characters of the model, in code point order.  "a_acute" stands for
\* U+00E1 (a with acute accent) and "acute" for U+0301 (the combining
\* accent).
Alphabet ==
    <<" ", ",", "0", "1", "2", "3", "4", "5", "6", "7", "8", "9",
      "A", "T", "a", "g", "k", "l", "t", "u", "x", "y", "a_acute", "acute">>

Ord(c) == CHOOSE i \in 1..Len(Alphabet) : Alphabet[i] = c

\* str.lower() on one character.
LowerChar(c) == IF c = "A" THEN "a" ELSE IF c = "T" THEN "t" ELSE c

\* str.lower()
Lower(s) == [i \in 1..Len(s) |-> LowerChar(s[i])]

IsSpace(c) == c = " "

\* unicodedata.normalize('NFKD', .) on one character.
NfkdChar(c) == IF c = "a_acute" THEN <<"a", "acute">> ELSE <<c>>

RECURSIVE Nfkd(_)
Nfkd(s) == IF s = <<>> THEN <<>> ELSE NfkdChar(Head(s)) \o Nfkd(Tail(s))

IsAscii(c) == c \notin {"a_acute", "acute"}

\* .encode('ASCII', 'ignore').decode('UTF-8')
AsciiOnly(s) == SelectSeq(s, IsAscii)

RECURSIVE LStrip(_)
LStrip(s) ==
    IF s # <<>> /\ IsSpace(Head(s)) THEN LStrip(Tail(s)) ELSE s

RECURSIVE RStrip(_)
RStrip(s) ==
    IF s # <<>> /\ IsSpace(s[Len(s)]) THEN RStrip(SubSeq(s, 1, Len(s) - 1)) ELSE s

\* str.strip()
Strip(s) == RStrip(LStrip(s))

\* The positions of the character c in s.
Positions(s, c) == { i \in 1..Len(s) : s[i] = c }

\* The least and the greatest element of a non-empty set of positions.
First(P) == CHOOSE i \in P : \A j \in P : i <= j
Last(P) == CHOOSE i \in P : \A j \in P : j <= i

\* s.split(c, 1) and s.rsplit(c, 1) for s that holds c: the two parts.
SplitAt(s, i) == <<SubSeq(s, 1, i - 1), SubSeq(s, i + 1, Len(s))>>

\* A variant of normalize_name without the final strip.
normalize_nameNoStrip(name) ==
    IF name = <<>> THEN <<>> ELSE Lower(AsciiOnly(Nfkd(name)))

\* utils.normalize_name
normalize_name(name) ==
    IF name = <<>> THEN <<>> ELSE Strip(Lower(AsciiOnly(Nfkd(name))))

\* Python's < on str: lexicographic by code point.
RECURSIVE StrLess(_, _)
StrLess(s, t) ==
    IF t = <<>> THEN FALSE
    ELSE IF s = <<>> THEN TRUE
    ELSE IF Head(s) # Head(t) THEN Ord(Head(s)) < Ord(Head(t))
    ELSE StrLess(Tail(s), Tail(t))

IsDigit(c) == c \in {"0", "1", "2", "3", "4", "5", "6", "7", "8", "9"}

DigitValue(c) == Ord(c) - Ord("0")

\* int() of a string of decimal digits.
RECURSIVE IntOf(_)
IntOf(s) ==
    IF s = <<>> THEN 0
    ELSE 10 * IntOf(SubSeq(s, 1, Len(s) - 1)) + DigitValue(s[Len(s)])

\* Command._parse_year: None for an empty or blank field and for a field
\* int() rejects, else the integer.
_parse_year(year_str) ==
    IF year_str = <<>> \/ Strip(year_str) = <<>> THEN None
    ELSE IF \A i \in 1..Len(Strip(year_str)) : IsDigit(Strip(year_str)[i])
         THEN Some(IntOf(Strip(year_str)))
         ELSE None

\* Python truth of an optional integer: None and 0 are false.
TruthyInt(v) == v # None /\ v[1] # 0

\* Python truth of an optional string: None and '' are false.
TruthyStr(v) == v # None /\ v[1] # <<>>

\* ------------------------------------------------------------------------
\* The input files.  A row is what csv.DictReader yields, tagged with its
\* source by Command.handle.
\* ------------------------------------------------------------------------
Row(src, id, name, birth, death, country, work, instr, link) ==
    [_source |-> src, ID |-> id, Name |-> name, BirthYear |-> birth,
     DeathYear |-> death, Country |-> country, Work |-> work,
     Instrumentation |-> instr, Link |-> link]

\* The rows a Sheerpluck file of the model may hold: a plain row; a row of
\* the same work with another id, death year "0", another country, no
\* instrumentation and another link; a row whose title exceeds the column;
\* a row whose country name exceeds the column.
SheerpluckRows ==
    { Row("sheerpluck", <<"7">>, <<"a">>, <<>>, <<"1", "9", "9", "0">>, <<"y">>, <<"t">>, <<"g">>, <<"k">>),
      Row("sheerpluck", <<"8">>, <<"a">>, <<>>, <<"0">>, <<"x">>, <<"t">>, <<>>, <<"x">>),
      Row("sheerpluck", <<"8">>, <<"a">>, <<>>, <<"1", "9", "9", "0">>, <<>>, <<"g", "g", "g">>, <<"g">>, <<"k">>),
      Row("sheerpluck", <<>>, <<"a">>, <<>>, <<>>, <<"x", "x">>, <<"t">>, <<"g">>, <<>>) }

\* The rows an IMSLP file of the model may hold: the plain row's work, with
\* no id, no death year, no country and another link.
ImslpRows ==
    { Row("imslp", <<>>, <<"a">>, <<>>, <<>>, <<>>, <<"t">>, <<"g">>, <<"l">>) }

\* The value csv.DictReader gives a column for which a line has no field
\* (restval, Python's None): what a line cut short leaves in its last
\* columns.
Absent == <<"None">>

\* Rows of composers whose names differ by case or by an accent, and of
\* composers born in 1900, 1901 and 1970, each with a title and nothing
\* else; a row whose name is blank, with a country and an instrumentation;
\* a row with no title; and a line cut short after the birth year.
NameRows ==
    { Row("sheerpluck", <<>>, <<"a">>, <<"1", "9", "7", "0">>, <<>>, <<>>, <<"t">>, <<>>, <<>>),
      Row("sheerpluck", <<>>, <<"A">>, <<"1", "9", "7", "0">>, <<>>, <<>>, <<"t">>, <<>>, <<>>),
      Row("sheerpluck", <<>>, <<"a_acute">>, <<"1", "9", "7", "0">>, <<>>, <<>>, <<"t">>, <<>>, <<>>),
      Row("sheerpluck", <<>>, <<"g">>, <<"1", "9", "0", "1">>, <<>>, <<>>, <<"t">>, <<>>, <<>>),
      Row("sheerpluck", <<>>, <<"g">>, <<"1", "9", "0", "0">>, <<>>, <<>>, <<"t">>, <<>>, <<>>),
      Row("sheerpluck", <<>>, <<" ">>, <<>>, <<>>, <<"y">>, <<"t">>, <<"g">>, <<>>),
      Row("sheerpluck", <<>>, <<"g">>, <<"1", "9", "0", "1">>, <<>>, <<"y">>, <<>>, <<"g">>, <<>>),
      Row("sheerpluck", <<>>, <<"a">>, <<"1", "9", "7", "0">>, Absent, Absent, Absent, Absent, Absent) }

\* Rows of one composer and one work: a row with neither death year nor
\* country, one with a country, one with a death year.
FillRows ==
    { Row("sheerpluck", <<>>, <<"a">>, <<"1", "9", "7", "0">>, <<>>, <<>>, <<"t">>, <<>>, <<>>),
      Row("sheerpluck", <<>>, <<"a">>, <<"1", "9", "7", "0">>, <<>>, <<"y">>, <<"t">>, <<>>, <<>>),
      Row("sheerpluck", <<>>, <<"a">>, <<"1", "9", "7", "0">>, <<"1", "9", "9", "0">>, <<>>, <<"t">>, <<>>, <<>>) }

SeqsUpTo(S, n) == UNION { [1..k -> S] : k \in 0..n }

\* ------------------------------------------------------------------------
\* State.
\* ------------------------------------------------------------------------
VARIABLES
    sheerpluck_file,        \* rows of the Sheerpluck CSV file
    imslp_file,             \* rows of the IMSLP CSV file
    db,                     \* the tables, as the open transaction sees them
    nextId,                 \* the tables' id sequences (never rolled back)
    snapshot,               \* the tables as last committed
    needs_rollback,         \* the open transaction is marked for rollback
    pc,                     \* where the import command is
    runNo,                  \* invocations of the import command so far
    dry_run,                \* options['dry_run'] of this invocation
    all_rows,               \* handle's all_rows, sorted
    pos,                    \* index in all_rows of the next row to batch
    batch,                  \* the batch being processed
    txi,                    \* index in batch of the next row to process
    stats,                  \* Command.stats
    composer_cache,         \* Command.composer_cache: key -> composer id
    country_cache,          \* Command.country_cache: name -> country id
    instrumentation_cache,  \* Command.instrumentation_cache: name -> id
    commitFaults,           \* commits refused so far
    last,                   \* what the last _process_row did
    txlog,                  \* what the rows of the open transaction did
    log,                    \* the outcome of each batch of this run
    ingested,               \* the rows resolved in committed batches, and how
    cur,                    \* the ids of the composers and works at this run's start
    prev,                   \* a summary of the last completed import before it
    dedup,                   \* the deduplicate_works command: its locals and output
    web,                    \* the work-detail requests and the merge in flight
    util                    \* a call of a function of utils.py: its argument and result

EmptyDb ==
    [data_sources |-> {}, countries |-> {}, categories |-> {},
     composers |-> {}, works |-> {}]

FirstIds == [country |-> 1, category |-> 1, composer |-> 1, work |-> 1]

\* A store that an earlier import and an editor left: a reviewed composer
\* and one reviewed work of it, which carries a Sheerpluck id.
SeededDb ==
    [data_sources |-> {"sheerpluck", "imslp"},
     countries |-> {[id |-> 1, name |-> <<"x">>]},
     categories |-> {},
     composers |->
        {[id |-> 1, full_name |-> <<"a">>, first_name |-> <<>>,
          last_name |-> <<"a">>, birth_year |-> None,
          death_year |-> Some(1990), is_living |-> FALSE, country |-> Some(1),
          data_source |-> "sheerpluck", needs_review |-> FALSE,
          is_verified |-> TRUE, updated_at |-> 0]},
     works |->
        {[id |-> 1, composer |-> 1, title |-> <<"u">>,
          instrumentation_category |-> None, instrumentation_detail |-> <<>>,
          data_source |-> "sheerpluck", external_id |-> <<"8">>,
          needs_review |-> FALSE, is_verified |-> TRUE, imslp_url |-> None,
          score_url |-> Some(<<"k">>), view_count |-> 1, updated_at |-> 0]}]

SeededIds == [country |-> 2, category |-> 1, composer |-> 2, work |-> 2]

ZeroStats ==
    [total_rows |-> 0, sheerpluck_rows |-> 0, imslp_rows |-> 0,
     composers_created |-> 0, composers_updated |-> 0,
     works_created |-> 0, works_skipped |-> 0, errors |-> 0]

EmptyCache == <<>>

Ids(table) == { r.id : r \in table }

\* DateTimeField(auto_now=True): the time of the save, to the granularity
\* of one invocation of the command.
Now == runNo

\* ------------------------------------------------------------------------
\* Row processing.  The operators below work on a record st of what a row
\* can change: db, nextId, the three caches, stats and needs_rollback.
\* A result is [st |-> the state after, ret |-> the value returned,
\* raised |-> whether an exception left the call].
\*
\* The database behaves as Django's transaction management makes it: a
\* query issued in an atomic block that is marked for rollback raises; a
\* failed INSERT or UPDATE of Model.save marks the block for rollback,
\* unless a savepoint (get_or_create opens one) absorbs it; foreign keys
\* are checked when the transaction commits.
\* ------------------------------------------------------------------------
Inc(st, counter) ==
    [st EXCEPT !.stats = [@ EXCEPT ![counter] = @ + 1]]

Result(st, ret, raised) == [st |-> st, ret |-> ret, raised |-> raised]

\* Command._get_or_create_country
_get_or_create_country(st, country_name) ==
    IF country_name \in DOMAIN st.country_cache
    THEN Result(st, Some(st.country_cache[country_name]), FALSE)
    ELSE IF st.needs_rollback
    THEN Result(st, None, TRUE)
    ELSE IF \E c \in st.db.countries : c.name = country_name
    THEN LET c == CHOOSE c \in st.db.countries : c.name = country_name
         IN  Result([st EXCEPT !.country_cache = @ @@ (country_name :> c.id)],
                    Some(c.id), FALSE)
    ELSE IF Len(country_name) > NameMaxLength
    THEN Result(st, None, TRUE)
    ELSE LET id == st.nextId.country
         IN  Result([st EXCEPT
                        !.db.countries = @ \cup {[id |-> id, name |-> country_name]},
                        !.nextId.country = id + 1,
                        !.country_cache = @ @@ (country_name :> id)],
                    Some(id), FALSE)

\* Command._get_or_create_instrumentation
_get_or_create_instrumentation(st, instrumentation_name) ==
    IF instrumentation_name \in DOMAIN st.instrumentation_cache
    THEN Result(st, Some(st.instrumentation_cache[instrumentation_name]), FALSE)
    ELSE IF st.needs_rollback
    THEN Result(st, None, TRUE)
    ELSE IF \E c \in st.db.categories : c.name = instrumentation_name
    THEN LET c == CHOOSE c \in st.db.categories : c.name = instrumentation_name
         IN  Result([st EXCEPT
                        !.instrumentation_cache = @ @@ (instrumentation_name :> c.id)],
                    Some(c.id), FALSE)
    ELSE IF Len(instrumentation_name) > NameMaxLength
    THEN Result(st, None, TRUE)
    ELSE LET id == st.nextId.category
         IN  Result([st EXCEPT
                        !.db.categories = @ \cup {[id |-> id, name |-> instrumentation_name]},
                        !.nextId.category = id + 1,
                        !.instrumentation_cache = @ @@ (instrumentation_name :> id)],
                    Some(id), FALSE)

\* The key of Command.composer_cache, f"{full_name}_{birth_year}_{death_year}".
\* The years hold no "_", so the text determines the three parts.
CacheKey(full_name, birth_year, death_year) ==
    <<full_name, birth_year, death_year>>

\* utils.deduplicate_composer_key, f"{normalized}_{year_str}" with year_str
\* the birth year or 'unknown' for a birth year that is None or 0: the pair
\* of the two parts (a normalized name holds no "_").
deduplicate_composer_key(full_name, birth_year) ==
    <<normalize_name(full_name), IF TruthyInt(birth_year) THEN birth_year ELSE None>>

\* datetime.now().year at the time of the run.
CurrentYear == 2026

\* utils.is_living_composer
is_living_composer(birth_year, death_year) ==
    IF TruthyInt(death_year) THEN FALSE
    ELSE IF ~TruthyInt(birth_year) THEN FALSE
    ELSE birth_year[1] > 1900 /\ CurrentYear - birth_year[1] < 100

\* The is_living computed for a new composer.
IsLivingAtCreate(birth_year, death_year) ==
    death_year = None /\ TruthyInt(birth_year) /\ birth_year[1] > 1900

\* The filter with birth_year compared by SQL's "=", under which a NULL
\* birth_year equals nothing.
ComposerMatchesNullUnequal(dbv, full_name, birth_year) ==
    { c \in dbv.composers :
        c.full_name = full_name /\ birth_year # None /\ c.birth_year = birth_year }

\* The rows Composer.objects.filter(full_name=, birth_year=).first() may
\* return: Meta.ordering is by last_name, first_name, which rows of one
\* full_name share.
ComposerMatches(dbv, full_name, birth_year) ==
    { c \in dbv.composers : c.full_name = full_name /\ c.birth_year = birth_year }

\* The update of a composer found in the store.
MergeComposer(composer, death_year, country) ==
    LET c1 == IF ~TruthyInt(composer.death_year) /\ TruthyInt(death_year)
              THEN [composer EXCEPT !.death_year = death_year] ELSE composer
        c2 == IF c1.country = None /\ country # None
              THEN [c1 EXCEPT !.country = country] ELSE c1
    IN  c2

\* Whether the update sets `updated`.
MergeUpdates(composer, death_year, country) ==
    \/ ~TruthyInt(composer.death_year) /\ TruthyInt(death_year)
    \/ composer.country = None /\ country # None

\* Lines 288-301 of _get_or_create_composer: <<first_name, last_name>> of a
\* full name, split at its first comma, else at its last space.
NameParts(full_name) ==
    IF Positions(full_name, ",") # {}
    THEN LET name_parts == SplitAt(full_name, First(Positions(full_name, ",")))
         IN  <<Strip(name_parts[2]), Strip(name_parts[1])>>
    ELSE IF Positions(full_name, " ") # {}
    THEN LET name_parts == SplitAt(full_name, Last(Positions(full_name, " ")))
         IN  <<Strip(name_parts[1]), Strip(name_parts[2])>>
    ELSE <<<<>>, full_name>>

\* A variant of NewComposer that leaves needs_review at its default.
NewComposerUnreviewed(id, full_name, birth_year, death_year, country, data_source, now) ==
    [id |-> id, full_name |-> full_name, birth_year |-> birth_year,
     first_name |-> NameParts(full_name)[1], last_name |-> NameParts(full_name)[2],
     death_year |-> death_year,
     is_living |-> IsLivingAtCreate(birth_year, death_year),
     country |-> country, data_source |-> data_source,
     needs_review |-> FALSE, is_verified |-> FALSE, updated_at |-> now]

\* The composer Composer.objects.create(...) inserts.
NewComposer(id, full_name, birth_year, death_year, country, data_source, now) ==
    [id |-> id, full_name |-> full_name, birth_year |-> birth_year,
     first_name |-> NameParts(full_name)[1], last_name |-> NameParts(full_name)[2],
     death_year |-> death_year,
     is_living |-> IsLivingAtCreate(birth_year, death_year),
     country |-> country, data_source |-> data_source,
     needs_review |-> TRUE, is_verified |-> FALSE, updated_at |-> now]

\* Command._get_or_create_composer: the set of its possible results.
_get_or_create_composer(st, full_name, birth_year, death_year, country, data_source, now) ==
    LET cache_key == CacheKey(full_name, birth_year, death_year)
        found == ComposerMatches(st.db, full_name, birth_year)
    IN  IF cache_key \in DOMAIN st.composer_cache
        THEN { Result(st, st.composer_cache[cache_key], FALSE) }
        ELSE IF st.needs_rollback
        THEN { Result(st, 0, TRUE) }
        ELSE IF found # {}
        THEN { LET merged == [MergeComposer(composer, death_year, country)
                                EXCEPT !.updated_at = now]
                   st1 == IF MergeUpdates(composer, death_year, country)
                          THEN Inc([st EXCEPT !.db.composers =
                                       (@ \ {composer}) \cup {merged}],
                                   "composers_updated")
                          ELSE st
               IN  Result([st1 EXCEPT !.composer_cache = @ @@ (cache_key :> composer.id)],
                          composer.id, FALSE)
               : composer \in found }
        ELSE { LET id == st.nextId.composer
                   st1 == Inc([st EXCEPT
                                  !.db.composers = @ \cup
                                      {NewComposer(id, full_name, birth_year, death_year,
                                                   country, data_source, now)},
                                  !.nextId.composer = id + 1],
                              "composers_created")
               IN  Result([st1 EXCEPT !.composer_cache = @ @@ (cache_key :> id)],
                          id, FALSE) }

\* The rows QuerySet.first() may return from a set of works: Work's
\* Meta.ordering is by title, and the order of rows of one title is the
\* database's choice.
FirstByTitle(S) ==
    { w \in S : \A v \in S : ~StrLess(v.title, w.title) }

\* Work.objects.filter(external_id=, data_source=)
WorksByExternalId(dbv, external_id, data_source) ==
    { w \in dbv.works : w.external_id = external_id /\ w.data_source = data_source }

\* Work.objects.filter(title=, composer=)
WorksByTitle(dbv, work_title, composer) ==
    { w \in dbv.works : w.title = work_title /\ w.composer = composer }

\* The lookups in the other order: the title first, the id second.
FindWorkTitleFirst(dbv, external_id, data_source, work_title, composer) ==
    LET byTitle == FirstByTitle(WorksByTitle(dbv, work_title, composer))
    IN  IF byTitle # {} THEN byTitle
        ELSE IF external_id # <<>>
        THEN FirstByTitle(WorksByExternalId(dbv, external_id, data_source))
        ELSE {}

\* The works the two lookups of _process_row may end with; {} when both
\* find nothing.
FindWork(dbv, external_id, data_source, work_title, composer) ==
    LET byId == IF external_id # <<>>
                THEN FirstByTitle(WorksByExternalId(dbv, external_id, data_source))
                ELSE {}
    IN  IF byId # {} THEN byId
        ELSE FirstByTitle(WorksByTitle(dbv, work_title, composer))

\* An update that keeps a single link field, score_url, for both sources.
MergeWorkOneLinkField(work, source_name, external_id, instrumentation_category, instrumentation, link, now) ==
    LET w1 == [work EXCEPT !.instrumentation_category = instrumentation_category,
                           !.instrumentation_detail = instrumentation]
        w2 == IF external_id # <<>> /\ w1.external_id = <<>>
              THEN [w1 EXCEPT !.external_id = external_id] ELSE w1
        w3 == IF link # <<>> /\ ~TruthyStr(w2.score_url)
              THEN [w2 EXCEPT !.score_url = Some(link)]
              ELSE w2
    IN  [w3 EXCEPT !.updated_at = now]

\* An update that takes the row's id and link whatever the work holds.
MergeWorkOverwrites(work, source_name, external_id, instrumentation_category, instrumentation, link, now) ==
    LET w1 == [work EXCEPT !.instrumentation_category = instrumentation_category,
                           !.instrumentation_detail = instrumentation]
        w2 == IF external_id # <<>>
              THEN [w1 EXCEPT !.external_id = external_id] ELSE w1
        w3 == IF link # <<>>
              THEN IF source_name = "imslp"
                   THEN [w2 EXCEPT !.imslp_url = Some(link)]
                   ELSE [w2 EXCEPT !.score_url = Some(link)]
              ELSE w2
    IN  [w3 EXCEPT !.updated_at = now]

\* The update of an existing work, with the save's auto_now.
MergeWork(work, source_name, external_id, instrumentation_category, instrumentation, link, now) ==
    LET w1 == [work EXCEPT !.instrumentation_category = instrumentation_category,
                           !.instrumentation_detail = instrumentation]
        w2 == IF external_id # <<>> /\ w1.external_id = <<>>
              THEN [w1 EXCEPT !.external_id = external_id] ELSE w1
        w3 == IF link # <<>>
              THEN IF source_name = "imslp" /\ ~TruthyStr(w2.imslp_url)
                   THEN [w2 EXCEPT !.imslp_url = Some(link)]
                   ELSE IF source_name = "sheerpluck" /\ ~TruthyStr(w2.score_url)
                   THEN [w2 EXCEPT !.score_url = Some(link)]
                   ELSE w2
              ELSE w2
    IN  [w3 EXCEPT !.updated_at = now]

\* The work Work.objects.create(**work_data) inserts.
NewWork(id, composer, work_title, source_name, external_id, instrumentation_category, instrumentation, link, now) ==
    [id |-> id, composer |-> composer, title |-> work_title,
     instrumentation_category |-> instrumentation_category,
     instrumentation_detail |-> instrumentation,
     data_source |-> source_name, external_id |-> external_id,
     needs_review |-> TRUE, is_verified |-> FALSE,
     imslp_url |-> IF link # <<>> /\ source_name = "imslp" THEN Some(link) ELSE None,
     score_url |-> IF link # <<>> /\ source_name = "sheerpluck" THEN Some(link) ELSE None,
     view_count |-> 0, updated_at |-> now]

Op(kind, work, before) == [kind |-> kind, work |-> work, before |-> before]

NoWork == [id |-> 0]

\* A variant of RowRaised that does not count the error.
RowRaisedUncounted(st) == [st |-> st, op |-> Op("raised", 0, NoWork)]

\* The except clause of _process_row.
RowRaised(st) == [st |-> Inc(st, "errors"), op |-> Op("raised", 0, NoWork)]

\* Lines 221-272 of _process_row: find the work, then merge or create.
ResolveWork(st, source_name, external_id, work_title, composer, instrumentation_category, instrumentation, link, now) ==
    LET found == FindWork(st.db, external_id, source_name, work_title, composer)
    IN  IF st.needs_rollback
        THEN { RowRaised(st) }
        ELSE IF found # {}
        THEN { [st |-> Inc([st EXCEPT !.db.works = (@ \ {work}) \cup
                               {MergeWork(work, source_name, external_id,
                                          instrumentation_category,
                                          instrumentation, link, now)}],
                           "works_skipped"),
                op |-> Op("merged", work.id, work)]
               : work \in found }
        ELSE IF Len(work_title) > TitleMaxLength
        THEN { RowRaised([st EXCEPT !.needs_rollback = TRUE]) }
        ELSE { [st |-> Inc([st EXCEPT
                               !.db.works = @ \cup
                                   {NewWork(st.nextId.work, composer, work_title,
                                            source_name, external_id,
                                            instrumentation_category,
                                            instrumentation, link, now)},
                               !.nextId.work = @ + 1],
                           "works_created"),
                op |-> Op("created", st.nextId.work, NoWork)] }

\* Lines 216-219 of _process_row, then the work.
ResolveInstrumentation(st, source_name, external_id, work_title, composer, instrumentation, link, now) ==
    IF instrumentation # <<>>
    THEN LET r == _get_or_create_instrumentation(st, instrumentation)
         IN  IF r.raised THEN { RowRaised(r.st) }
             ELSE ResolveWork(r.st, source_name, external_id, work_title, composer,
                              r.ret, instrumentation, link, now)
    ELSE ResolveWork(st, source_name, external_id, work_title, composer,
                     None, instrumentation, link, now)

\* A variant of _process_row that resolves the country before it tests the
\* required fields.
_process_rowCountryFirst(st, row, now) ==
    LET source_name == row._source
        external_id == Strip(row.ID)
        composer_name == Strip(row.Name)
        birth_year == _parse_year(row.BirthYear)
        death_year == _parse_year(row.DeathYear)
        country_name == Strip(row.Country)
        work_title == Strip(row.Work)
        instrumentation == Strip(row.Instrumentation)
        link == Strip(row.Link)
        c == IF country_name # <<>>
             THEN _get_or_create_country(st, country_name)
             ELSE Result(st, None, FALSE)
    IN  IF c.raised
        THEN { RowRaised(c.st) }
        ELSE IF composer_name = <<>> \/ work_title = <<>>
        THEN { [st |-> Inc(c.st, "errors"), op |-> Op("skipped", 0, NoWork)] }
        ELSE UNION {
               IF r.raised THEN { RowRaised(r.st) }
               ELSE ResolveInstrumentation(r.st, source_name, external_id, work_title,
                                           r.ret, instrumentation, link, now)
               : r \in _get_or_create_composer(c.st, composer_name, birth_year,
                                               death_year, c.ret, source_name, now) }

\* Command._process_row: the set of its possible results, each the state
\* after and what the row did.
_process_row(st, row, now) ==
    LET source_name == row._source
        external_id == Strip(row.ID)
        composer_name == Strip(row.Name)
        birth_year == _parse_year(row.BirthYear)
        death_year == _parse_year(row.DeathYear)
        country_name == Strip(row.Country)
        work_title == Strip(row.Work)
        instrumentation == Strip(row.Instrumentation)
        link == Strip(row.Link)
        c == IF country_name # <<>>
             THEN _get_or_create_country(st, country_name)
             ELSE Result(st, None, FALSE)
    IN  IF composer_name = <<>> \/ work_title = <<>>
        THEN { [st |-> Inc(st, "errors"), op |-> Op("skipped", 0, NoWork)] }
        ELSE IF c.raised
        THEN { RowRaised(c.st) }
        ELSE UNION {
               IF r.raised THEN { RowRaised(r.st) }
               ELSE ResolveInstrumentation(r.st, source_name, external_id, work_title,
                                           r.ret, instrumentation, link, now)
               : r \in _get_or_create_composer(c.st, composer_name, birth_year,
                                               death_year, c.ret, source_name, now) }

\* ------------------------------------------------------------------------
\* Command.handle of import_sheerpluck.
\* ------------------------------------------------------------------------
\* The key function of all_rows.sort raises AttributeError on a row whose
\* Name or Work is None: x.get('Name', '') is None, and None has no strip.
SortRaises(rows) ==
    \E i \in 1..Len(rows) : rows[i].Name = Absent \/ rows[i].Work = Absent

\* The key of all_rows.sort.
SortKey(row) == <<Lower(Strip(row.Name)), Lower(Strip(row.Work))>>

\* Python's < on the key tuples.
KeyLess(k1, k2) ==
    \/ StrLess(k1[1], k2[1])
    \/ k1[1] = k2[1] /\ StrLess(k1[2], k2[2])

RECURSIVE Insert(_, _)
Insert(sorted, row) ==
    IF sorted = <<>> THEN <<row>>
    ELSE IF KeyLess(SortKey(row), SortKey(Head(sorted))) THEN <<row>> \o sorted
    ELSE <<Head(sorted)>> \o Insert(Tail(sorted), row)

\* list.sort(key=...): a stable sort.
RECURSIVE SortRows(_)
SortRows(rows) ==
    IF rows = <<>> THEN <<>>
    ELSE Insert(SortRows(SubSeq(rows, 1, Len(rows) - 1)), rows[Len(rows)])

\* The errors _validate_row counts for a row.
ValidateErrors(row) ==
    (IF row.Name = <<>> THEN 1 ELSE 0) + (IF row.Work = <<>> THEN 1 ELSE 0)

RECURSIVE SumErrors(_)
SumErrors(rows) ==
    IF rows = <<>> THEN 0 ELSE ValidateErrors(Head(rows)) + SumErrors(Tail(rows))

\* Every foreign key of the tables names an existing row.
ForeignKeysHold(dbv) ==
    /\ \A w \in dbv.works :
          /\ w.composer \in Ids(dbv.composers)
          /\ w.instrumentation_category # None
                => w.instrumentation_category[1] \in Ids(dbv.categories)
    /\ \A c \in dbv.composers :
          c.country # None => c.country[1] \in Ids(dbv.countries)

\* No function of utils.py has been called.
NoCall == [fn |-> "none", arg |-> <<>>, result |-> <<>>, once |-> <<>>]

\* No work-detail request and no merge is in flight.
WebIdle ==
    [requests |-> [p \in 1..MaxRequests |-> [pc |-> "idle", instance |-> NoWork]],
     merge |-> [pc |-> "idle", work |-> NoWork, row |-> <<>>],
     retrieved |-> 0, merged |-> 0]

\* The deduplicator before its first invocation, over a store of works.
DedupIdle(works, concurrent) ==
    [pc |-> "idle", runNo |-> 0, concurrent |-> concurrent, dry_run |-> FALSE,
     total_groups |-> 0, duplicates |-> <<>>, i |-> 1, delete_count |-> 0,
     total_deleted |-> 0, remaining |-> 0, out |-> <<>>, passes |-> 0,
     before |-> works, written |-> {}, writes |-> 0,
     prev |-> [valid |-> FALSE, dry_run |-> FALSE, written |-> {}, total_deleted |-> 0]]

NoOp == [kind |-> "none", work |-> 0, before |-> NoWork, row |-> <<>>]

Current ==
    [db |-> db, nextId |-> nextId, composer_cache |-> composer_cache,
     country_cache |-> country_cache,
     instrumentation_cache |-> instrumentation_cache,
     stats |-> stats, needs_rollback |-> needs_rollback]

\* The batches of a run's log that were not committed.
FailedBatches(batches) ==
    Cardinality({ i \in 1..Len(batches) : batches[i].outcome # "committed" })

NoRun == [composers |-> {}, works |-> {}]

NoPrev == [valid |-> FALSE, all_rows |-> <<>>, failed |-> 0]

fileVars == <<sheerpluck_file, imslp_file>>
cacheVars == <<composer_cache, country_cache, instrumentation_cache>>
loopVars == <<dry_run, all_rows, pos, batch, txi>>

vars ==
    <<sheerpluck_file, imslp_file, db, nextId, snapshot, needs_rollback, pc,
      runNo, dry_run, all_rows, pos, batch, txi, stats, composer_cache,
      country_cache, instrumentation_cache, commitFaults, last, txlog, log,
      ingested, cur, prev, dedup, web, util>>

\* A variant of LoadRows in which a missing file makes the other file's rows
\* be dropped as well.
LoadRowsNoneIfOneMissing(sheerpluck_exists, imslp_exists) ==
    IF sheerpluck_exists /\ imslp_exists THEN sheerpluck_file \o imslp_file ELSE <<>>

\* The rows read from the files that exist, Sheerpluck first (lines 89-122).
LoadRows(sheerpluck_exists, imslp_exists) ==
    (IF sheerpluck_exists THEN sheerpluck_file ELSE <<>>)
        \o (IF imslp_exists THEN imslp_file ELSE <<>>)

\* A new Command object and lines 59-134 of handle: the data sources, the
\* two files (each may be missing), the sort.  With no row the command
\* fails with CommandError; an exception of the sort is caught nowhere and
\* ends the command.
StartRun(dry, sheerpluck_exists, imslp_exists) ==
    /\ pc \in {"idle", "done", "failed", "crashed"}
    /\ runNo < MaxRuns
    /\ LET loaded == LoadRows(sheerpluck_exists, imslp_exists)
           db1 == IF dry THEN db
                  ELSE [db EXCEPT !.data_sources = @ \cup {"sheerpluck", "imslp"}]
       IN  /\ runNo' = runNo + 1
           /\ dry_run' = dry
           /\ db' = db1
           /\ snapshot' = db1
           /\ stats' = [ZeroStats EXCEPT
                            !.sheerpluck_rows =
                                IF sheerpluck_exists THEN Len(sheerpluck_file) ELSE 0,
                            !.imslp_rows =
                                IF imslp_exists THEN Len(imslp_file) ELSE 0]
           /\ composer_cache' = EmptyCache
           /\ country_cache' = EmptyCache
           /\ instrumentation_cache' = EmptyCache
           /\ all_rows' = IF loaded = <<>> \/ SortRaises(loaded) THEN <<>>
                          ELSE SortRows(loaded)
           /\ pc' = IF loaded = <<>> THEN "failed"
                    ELSE IF SortRaises(loaded) THEN "crashed"
                    ELSE "loop"
           /\ pos' = 1
           /\ batch' = <<>>
           /\ txi' = 1
           /\ needs_rollback' = FALSE
           /\ last' = NoOp
           /\ txlog' = [errors0 |-> 0, ops |-> <<>>]
           /\ log' = <<>>
           /\ cur' = [composers |-> Ids(db.composers), works |-> Ids(db.works)]
           /\ prev' = IF pc = "done" /\ ~dry_run
                      THEN [valid |-> TRUE, all_rows |-> all_rows,
                            failed |-> FailedBatches(log)]
                      ELSE prev
    /\ UNCHANGED <<dedup, web, util, fileVars, nextId, commitFaults, ingested>>

\* The loop of handle in a dry run: every row is counted and validated.
DryRunLoop ==
    /\ pc = "loop" /\ dry_run /\ pos <= Len(all_rows)
    /\ stats' = [stats EXCEPT !.total_rows = Len(all_rows),
                              !.errors = @ + SumErrors(all_rows)]
    /\ pos' = Len(all_rows) + 1
    /\ last' = NoOp
    /\ UNCHANGED <<dedup, web, util, fileVars, db, nextId, snapshot, needs_rollback, pc, runNo,
                   dry_run, all_rows, batch, txi, cacheVars, commitFaults,
                   txlog, log, ingested, cur, prev>>

\* A variant of BeginBatch that hands the batch over when it holds more
\* than batch_size rows.
BeginBatchOverfull ==
    /\ pc = "loop" /\ ~dry_run /\ pos <= Len(all_rows)
    /\ LET n == IF Len(all_rows) - pos + 1 > BatchSize
                THEN BatchSize + 1 ELSE Len(all_rows) - pos + 1
       IN  /\ batch' = SubSeq(all_rows, pos, pos + n - 1)
           /\ pos' = pos + n
           /\ stats' = [stats EXCEPT !.total_rows = @ + n]
    /\ txi' = 1
    /\ needs_rollback' = FALSE
    /\ pc' = "tx"
    /\ last' = NoOp
    /\ txlog' = [errors0 |-> stats.errors, ops |-> <<>>]
    /\ UNCHANGED <<dedup, web, util, fileVars, db, nextId, snapshot, runNo, dry_run, all_rows,
                   cacheVars, commitFaults, log, ingested, cur, prev>>

\* The loop of handle up to a call of _process_batch: rows are counted and
\* appended until the batch is full or the rows end; transaction.atomic()
\* is entered.
BeginBatch ==
    /\ pc = "loop" /\ ~dry_run /\ pos <= Len(all_rows)
    /\ LET n == IF Len(all_rows) - pos + 1 >= BatchSize
                THEN BatchSize ELSE Len(all_rows) - pos + 1
       IN  /\ batch' = SubSeq(all_rows, pos, pos + n - 1)
           /\ pos' = pos + n
           /\ stats' = [stats EXCEPT !.total_rows = @ + n]
    /\ txi' = 1
    /\ needs_rollback' = FALSE
    /\ pc' = "tx"
    /\ last' = NoOp
    /\ txlog' = [errors0 |-> stats.errors, ops |-> <<>>]
    /\ UNCHANGED <<dedup, web, util, fileVars, db, nextId, snapshot, runNo, dry_run, all_rows,
                   cacheVars, commitFaults, log, ingested, cur, prev>>

\* One call of _process_row inside the atomic block.
ProcessRow ==
    /\ pc = "tx" /\ txi <= Len(batch)
    /\ \E r \in _process_row(Current, batch[txi], Now) :
          /\ db' = r.st.db
          /\ nextId' = r.st.nextId
          /\ composer_cache' = r.st.composer_cache
          /\ country_cache' = r.st.country_cache
          /\ instrumentation_cache' = r.st.instrumentation_cache
          /\ stats' = r.st.stats
          /\ needs_rollback' = r.st.needs_rollback
          /\ last' = [kind |-> r.op.kind, work |-> r.op.work,
                      before |-> r.op.before, row |-> batch[txi]]
          /\ txlog' = [txlog EXCEPT !.ops = Append(@,
                          [kind |-> r.op.kind, row |-> batch[txi]])]
    /\ txi' = txi + 1
    /\ UNCHANGED <<dedup, web, util, fileVars, snapshot, pc, runNo, dry_run, all_rows, pos, batch,
                   commitFaults, log, ingested, cur, prev>>

LogEntry(outcome, cause, errors1, dbAfter) ==
    [rows |-> batch, ops |-> txlog.ops, outcome |-> outcome, cause |-> cause,
     errorsBefore |-> txlog.errors0, errorsAfter |-> errors1,
     dbBefore |-> snapshot, dbAfter |-> dbAfter]

\* The atomic block is left with no exception and no mark: the batch
\* commits.
CommitBatch ==
    /\ pc = "tx" /\ txi > Len(batch)
    /\ ~needs_rollback
    /\ ForeignKeysHold(db)
    /\ snapshot' = db
    /\ pc' = "loop"
    /\ last' = NoOp
    /\ log' = Append(log, LogEntry("committed", "none", stats.errors, db))
    /\ ingested' = ingested \cup
                       { txlog.ops[i] : i \in { k \in 1..Len(txlog.ops) :
                            txlog.ops[k].kind \in {"created", "merged"} } }
    /\ UNCHANGED <<dedup, web, util, fileVars, db, nextId, needs_rollback, runNo, loopVars, stats,
                   cacheVars, commitFaults, txlog, cur, prev>>

\* The atomic block is left with no exception but marked for rollback: the
\* batch is rolled back and nothing is raised.
RollbackBatch ==
    /\ pc = "tx" /\ txi > Len(batch)
    /\ needs_rollback
    /\ db' = snapshot
    /\ needs_rollback' = FALSE
    /\ pc' = "loop"
    /\ last' = NoOp
    /\ log' = Append(log, LogEntry("rolled_back", "write", stats.errors, snapshot))
    /\ UNCHANGED <<dedup, web, util, fileVars, nextId, snapshot, runNo, loopVars, stats, cacheVars,
                   commitFaults, txlog, ingested, cur, prev>>

\* The commit raises, for a foreign key that names no row or for a cause
\* outside the program: the batch is rolled back and the except clause of
\* _process_batch counts one error.
BatchError ==
    /\ pc = "tx" /\ txi > Len(batch)
    /\ ~needs_rollback
    /\ \/ /\ ~ForeignKeysHold(db)
          /\ commitFaults' = commitFaults
          /\ log' = Append(log, LogEntry("commit_error", "foreign_key",
                                         stats.errors + 1, snapshot))
       \/ /\ ForeignKeysHold(db)
          /\ commitFaults < MaxCommitFaults
          /\ commitFaults' = commitFaults + 1
          /\ log' = Append(log, LogEntry("commit_error", "database",
                                         stats.errors + 1, snapshot))
    /\ db' = snapshot
    /\ stats' = [stats EXCEPT !.errors = @ + 1]
    /\ pc' = "loop"
    /\ last' = NoOp
    /\ UNCHANGED <<dedup, web, util, fileVars, nextId, snapshot, needs_rollback, runNo, loopVars,
                   cacheVars, txlog, ingested, cur, prev>>

\* Command._print_stats, at the end of handle.
PrintStats ==
    /\ pc = "loop" /\ pos > Len(all_rows)
    /\ pc' = "done"
    /\ last' = NoOp
    /\ UNCHANGED <<dedup, web, util, fileVars, db, nextId, snapshot, needs_rollback, runNo,
                   loopVars, stats, cacheVars, commitFaults, txlog, log, ingested,
                   cur, prev>>

Init ==
    /\ sheerpluck_file \in SeqsUpTo(SheerpluckRows, MaxRows)
    /\ imslp_file \in SeqsUpTo(ImslpRows, MaxRows)
    /\ Len(sheerpluck_file) + Len(imslp_file) <= MaxRows
    /\ \/ db = EmptyDb /\ nextId = FirstIds
       \/ db = SeededDb /\ nextId = SeededIds
    /\ snapshot = db
    /\ needs_rollback = FALSE
    /\ pc = "idle"
    /\ runNo = 0
    /\ dry_run = FALSE
    /\ all_rows = <<>>
    /\ pos = 1
    /\ batch = <<>>
    /\ txi = 1
    /\ stats = ZeroStats
    /\ composer_cache = EmptyCache
    /\ country_cache = EmptyCache
    /\ instrumentation_cache = EmptyCache
    /\ commitFaults = 0
    /\ last = NoOp
    /\ txlog = [errors0 |-> 0, ops |-> <<>>]
    /\ log = <<>>
    /\ ingested = {}
    /\ cur = NoRun
    /\ prev = NoPrev
    /\ dedup = DedupIdle({}, FALSE)
    /\ web = WebIdle
    /\ util = NoCall

Next ==
    \/ \E dry \in BOOLEAN, se \in BOOLEAN, ie \in BOOLEAN : StartRun(dry, se, ie)
    \/ DryRunLoop
    \/ BeginBatch
    \/ ProcessRow
    \/ CommitBatch
    \/ RollbackBatch
    \/ BatchError
    \/ PrintStats

Spec == Init /\ [][Next]_vars

\* ------------------------------------------------------------------------
\* Command.handle of deduplicate_works.
\* ------------------------------------------------------------------------
SameKey(v, w) == v.title = w.title /\ v.composer = w.composer

\* Min('id') of a set of works.
MinId(S) == CHOOSE m \in { w.id : w \in S } : \A w \in S : m <= w.id

\* The query of lines 27-30: the (title, composer) groups of more than one
\* work, each with its count and its lowest id.
DuplicateGroupsOver2(works) ==
    { g \in { LET G == { v \in works : SameKey(v, w) }
              IN  [title |-> w.title, composer |-> w.composer,
                   count |-> Cardinality(G), min_id |-> MinId(G)] : w \in works } :
        g.count > 2 }

DuplicateGroups(works) ==
    { g \in { LET G == { v \in works : SameKey(v, w) }
              IN  [title |-> w.title, composer |-> w.composer,
                   count |-> Cardinality(G), min_id |-> MinId(G)] : w \in works } :
        g.count > 1 }

\* The query set of lines 44-47 without its exclude.
WorksToDeleteAll(works, title, composer_id, min_id) ==
    { w \in works : w.title = title /\ w.composer = composer_id }

\* Lines 44-47: the works of the group, except the one of id min_id.
WorksToDelete(works, title, composer_id, min_id) ==
    { w \in works : w.title = title /\ w.composer = composer_id /\ w.id # min_id }

\* The test of lines 51-52 with the mode left out.
DeletesAlways(dry_run_option, delete_count) == delete_count > 0

\* Lines 51-52 and 59: the group's works are deleted.
Deletes(dry_run_option, delete_count) == delete_count > 0 /\ ~dry_run_option

\* The orders in which a query without ORDER BY may return its rows.
Orderings(S) ==
    { f \in [1..Cardinality(S) -> S] : \A i, j \in DOMAIN f : f[i] = f[j] => i = j }

Message(kind, n) == [kind |-> kind, n |-> n]

importVars ==
    <<sheerpluck_file, imslp_file, needs_rollback, pc, runNo, dry_run, all_rows,
      pos, batch, txi, stats, composer_cache, country_cache,
      instrumentation_cache, commitFaults, last, txlog, log, ingested, cur, prev>>

\* Lines 21-35: the option, the count of the groups, the first message.
Handle(dry_run_option) ==
    /\ dedup.pc \in {"idle", "done"}
    /\ dedup.runNo < MaxDedupRuns
    /\ LET total_groups == Cardinality(DuplicateGroups(db.works))
       IN  dedup' = [dedup EXCEPT
                        !.pc = "iterate", !.runNo = @ + 1, !.dry_run = dry_run_option,
                        !.total_groups = total_groups,
                        !.duplicates = <<>>, !.i = 1, !.delete_count = 0,
                        !.total_deleted = 0, !.remaining = 0,
                        !.out = <<Message("found", total_groups)>>,
                        !.passes = 0, !.before = db.works, !.written = {},
                        !.prev = [valid |-> dedup.pc = "done",
                                  dry_run |-> dedup.dry_run,
                                  written |-> dedup.written,
                                  total_deleted |-> dedup.total_deleted]]
    /\ UNCHANGED <<importVars, web, util, db, snapshot, nextId>>

\* Line 37: the loop evaluates the query of the groups, once.
Iterate ==
    /\ dedup.pc = "iterate"
    /\ \E duplicates \in Orderings(DuplicateGroups(db.works)) :
          dedup' = [dedup EXCEPT !.pc = "group", !.duplicates = duplicates,
                                 !.i = 1, !.passes = @ + 1]
    /\ UNCHANGED <<importVars, web, util, db, snapshot, nextId>>

\* Lines 38-58: the count of the group's works to delete, and in a dry run
\* the message.
CountGroup ==
    /\ dedup.pc = "group"
    /\ dedup.i <= Len(dedup.duplicates)
    /\ LET dup == dedup.duplicates[dedup.i]
           delete_count ==
               Cardinality(WorksToDelete(db.works, dup.title, dup.composer, dup.min_id))
       IN  dedup' =
               IF Deletes(dedup.dry_run, delete_count)
               THEN [dedup EXCEPT !.pc = "delete", !.delete_count = delete_count]
               ELSE [dedup EXCEPT
                        !.i = @ + 1, !.delete_count = delete_count,
                        !.out = IF delete_count > 0
                                THEN Append(@, Message("would_delete", delete_count))
                                ELSE @]
    /\ UNCHANGED <<importVars, web, util, db, snapshot, nextId>>

\* Lines 60-61: the delete, and the count taken before it added to the
\* total.  The message of line 64 needs 1000 deletions.
DeleteGroup ==
    /\ dedup.pc = "delete"
    /\ LET dup == dedup.duplicates[dedup.i]
           works == db.works \ WorksToDelete(db.works, dup.title, dup.composer, dup.min_id)
       IN  /\ db' = [db EXCEPT !.works = works]
           /\ snapshot' = [snapshot EXCEPT !.works = works]
    /\ dedup' = [dedup EXCEPT !.pc = "group", !.i = @ + 1,
                              !.total_deleted = @ + dedup.delete_count]
    /\ UNCHANGED <<importVars, web, util, nextId>>

\* Lines 66-78: the summary after the loop.
Summary ==
    /\ dedup.pc = "group"
    /\ dedup.i > Len(dedup.duplicates)
    /\ dedup' =
          IF dedup.dry_run
          THEN [dedup EXCEPT !.pc = "done",
                             !.out = Append(@, Message("dry_run", dedup.total_deleted))]
          ELSE [dedup EXCEPT !.pc = "verify",
                             !.out = Append(@, Message("deleted", dedup.total_deleted))]
    /\ UNCHANGED <<importVars, web, util, db, snapshot, nextId>>

\* Lines 80-92: the groups that remain, and the message about them.
Verify ==
    /\ dedup.pc = "verify"
    /\ LET remaining == Cardinality(DuplicateGroups(db.works))
       IN  dedup' = [dedup EXCEPT
                        !.pc = "done", !.remaining = remaining,
                        !.out = Append(@, IF remaining = 0
                                          THEN Message("none_remain", 0)
                                          ELSE Message("warning", remaining))]
    /\ UNCHANGED <<importVars, web, util, db, snapshot, nextId>>

\* The keys of the works of the deduplicator's stores.
DedupKeys == { <<<<"t">>, 1>>, <<<<"t">>, 2>>, <<<<"u">>, 1>> }

DedupWork(id, key) ==
    NewWork(id, key[2], key[1], "sheerpluck", <<>>, None, <<>>, <<>>, 0)

\* Another process creates a work while the deduplicator runs: line 271 of
\* import_sheerpluck in an import that runs at the same time.
ConcurrentCreate ==
    /\ dedup.concurrent
    /\ dedup.pc \notin {"idle", "done"}
    /\ dedup.writes < MaxWrites
    /\ \E key \in DedupKeys :
          LET w == DedupWork(nextId.work, key)
          IN  /\ db' = [db EXCEPT !.works = @ \cup {w}]
              /\ snapshot' = [snapshot EXCEPT !.works = @ \cup {w}]
              /\ dedup' = [dedup EXCEPT !.written = @ \cup {w}, !.writes = @ + 1]
    /\ nextId' = [nextId EXCEPT !.work = @ + 1]
    /\ UNCHANGED <<importVars, web, util>>

\* The stores the deduplicator starts from: up to MaxWorks works of two
\* composers, with ids in the order of their creation.
InitDedup ==
    /\ \E keys \in SeqsUpTo(DedupKeys, MaxWorks) :
          /\ db = [data_sources |-> {"sheerpluck", "imslp"}, countries |-> {},
                   categories |-> {},
                   composers |-> { NewComposer(c, <<"a">>, Some(1900 + c), None, None,
                                               "sheerpluck", 0) : c \in 1..2 },
                   works |-> { DedupWork(k, keys[k]) : k \in DOMAIN keys }]
          /\ nextId = [country |-> 1, category |-> 1, composer |-> 3,
                       work |-> Len(keys) + 1]
          /\ \E concurrent \in BOOLEAN : dedup = DedupIdle(db.works, concurrent)
    /\ web = WebIdle
    /\ util = NoCall
    /\ snapshot = db
    /\ sheerpluck_file = <<>>
    /\ imslp_file = <<>>
    /\ needs_rollback = FALSE
    /\ pc = "idle"
    /\ runNo = 0
    /\ dry_run = FALSE
    /\ all_rows = <<>>
    /\ pos = 1
    /\ batch = <<>>
    /\ txi = 1
    /\ stats = ZeroStats
    /\ composer_cache = EmptyCache
    /\ country_cache = EmptyCache
    /\ instrumentation_cache = EmptyCache
    /\ commitFaults = 0
    /\ last = NoOp
    /\ txlog = [errors0 |-> 0, ops |-> <<>>]
    /\ log = <<>>
    /\ ingested = {}
    /\ cur = NoRun
    /\ prev = NoPrev

NextDedup ==
    \/ \E dry_run_option \in BOOLEAN : Handle(dry_run_option)
    \/ Iterate
    \/ CountGroup
    \/ DeleteGroup
    \/ Summary
    \/ Verify
    \/ ConcurrentCreate

SpecDedup == InitDedup /\ [][NextDedup]_vars

\* ------------------------------------------------------------------------
\* Imports from an empty store of a Sheerpluck file of NameRows, in runs in
\* which the database refuses nothing.
\* ------------------------------------------------------------------------
InitNames ==
    /\ sheerpluck_file \in SeqsUpTo(NameRows, MaxRows)
    /\ imslp_file = <<>>
    /\ db = EmptyDb
    /\ nextId = FirstIds
    /\ snapshot = db
    /\ needs_rollback = FALSE
    /\ pc = "idle"
    /\ runNo = 0
    /\ dry_run = FALSE
    /\ all_rows = <<>>
    /\ pos = 1
    /\ batch = <<>>
    /\ txi = 1
    /\ stats = ZeroStats
    /\ composer_cache = EmptyCache
    /\ country_cache = EmptyCache
    /\ instrumentation_cache = EmptyCache
    /\ commitFaults = 0
    /\ last = NoOp
    /\ txlog = [errors0 |-> 0, ops |-> <<>>]
    /\ log = <<>>
    /\ ingested = {}
    /\ cur = NoRun
    /\ prev = NoPrev
    /\ dedup = DedupIdle({}, FALSE)
    /\ web = WebIdle
    /\ util = NoCall

NextNames ==
    \/ \E dry \in BOOLEAN, se \in BOOLEAN : StartRun(dry, se, FALSE)
    \/ DryRunLoop
    \/ BeginBatch
    \/ ProcessRow
    \/ CommitBatch
    \/ PrintStats

SpecNames == InitNames /\ [][NextNames]_vars

\* The steps of a run once it has started: the command runs to its end, it
\* does not wait.
RunStep == DryRunLoop \/ BeginBatch \/ ProcessRow \/ CommitBatch \/ PrintStats

SpecNamesLive == InitNames /\ [][NextNames]_vars /\ WF_vars(RunStep)

\* ------------------------------------------------------------------------
\* Imports from an empty store of a Sheerpluck file of FillRows, in runs in
\* which the database refuses nothing.
\* ------------------------------------------------------------------------
InitFill ==
    /\ sheerpluck_file \in SeqsUpTo(FillRows, MaxRows)
    /\ imslp_file = <<>>
    /\ db = EmptyDb
    /\ nextId = FirstIds
    /\ snapshot = db
    /\ needs_rollback = FALSE
    /\ pc = "idle"
    /\ runNo = 0
    /\ dry_run = FALSE
    /\ all_rows = <<>>
    /\ pos = 1
    /\ batch = <<>>
    /\ txi = 1
    /\ stats = ZeroStats
    /\ composer_cache = EmptyCache
    /\ country_cache = EmptyCache
    /\ instrumentation_cache = EmptyCache
    /\ commitFaults = 0
    /\ last = NoOp
    /\ txlog = [errors0 |-> 0, ops |-> <<>>]
    /\ log = <<>>
    /\ ingested = {}
    /\ cur = NoRun
    /\ prev = NoPrev
    /\ dedup = DedupIdle({}, FALSE)
    /\ web = WebIdle
    /\ util = NoCall

SpecFill == InitFill /\ [][NextNames]_vars

\* ------------------------------------------------------------------------
\* WorkViewSet.retrieve, concurrent with the merge of a row into the same
\* Work by _process_row.  Each of the two reads the Work and writes it later,
\* and the steps of requests and of the merge interleave.
\* ------------------------------------------------------------------------
\* Everything but the tables and the requests.
idleVars ==
    <<sheerpluck_file, imslp_file, nextId, needs_rollback, pc, runNo, dry_run,
      all_rows, pos, batch, txi, stats, composer_cache, country_cache,
      instrumentation_cache, commitFaults, last, txlog, log, ingested, cur, prev,
      dedup, util>>

\* retrieve, line 441: instance = self.get_object().
GetObject(p) ==
    /\ web.requests[p].pc = "idle"
    /\ web.retrieved + Cardinality({ q \in 1..MaxRequests : web.requests[q].pc = "got" }) < MaxRetrievals
    /\ \E w \in db.works :
          web' = [web EXCEPT !.requests[p] = [pc |-> "got", instance |-> w]]
    /\ UNCHANGED <<db, snapshot, idleVars>>

\* retrieve, lines 443-445: filter(pk=instance.pk).update(view_count=
\* instance.view_count + 1), the value computed from the instance read
\* before; then the response.
UpdateViewCount(p) ==
    /\ web.requests[p].pc = "got"
    /\ LET instance == web.requests[p].instance
       IN  db' = [db EXCEPT !.works =
                     { IF w.id = instance.id
                       THEN [w EXCEPT !.view_count = instance.view_count + 1]
                       ELSE w : w \in @ }]
    /\ snapshot' = db'
    /\ web' = [web EXCEPT !.requests[p] = [pc |-> "idle", instance |-> NoWork],
                          !.retrieved = @ + 1]
    /\ UNCHANGED idleVars

\* The rows whose merge is followed here: rows of the seeded composer with
\* no instrumentation, so that the row resolves nothing but the work.
MergeRows == { r \in SheerpluckRows \cup ImslpRows : Strip(r.Instrumentation) = <<>> }

\* _process_row, lines 223-235: the two lookups load the Work.
FindForMerge(row) ==
    /\ web.merge.pc = "idle"
    /\ web.merged < MaxMerges
    /\ \E c \in ComposerMatches(db, Strip(row.Name), _parse_year(row.BirthYear)) :
       \E work \in FindWork(db, Strip(row.ID), row._source, Strip(row.Work), c.id) :
          web' = [web EXCEPT !.merge = [pc |-> "found", work |-> work, row |-> row]]
    /\ UNCHANGED <<db, snapshot, idleVars>>

\* _process_row, lines 237-250: the fields are set on the loaded Work and
\* work.save() writes every column of it, view_count among them.
SaveMerged ==
    /\ web.merge.pc = "found"
    /\ LET work == web.merge.work
           row == web.merge.row
           saved == MergeWork(work, row._source, Strip(row.ID), None,
                              Strip(row.Instrumentation), Strip(row.Link), Now + 1)
       IN  db' = [db EXCEPT !.works = { w \in @ : w.id # work.id } \cup {saved}]
    /\ snapshot' = db'
    /\ web' = [web EXCEPT !.merge = [pc |-> "idle", work |-> NoWork, row |-> <<>>],
                          !.merged = @ + 1]
    /\ UNCHANGED idleVars

InitViews ==
    /\ sheerpluck_file = <<>>
    /\ imslp_file = <<>>
    /\ db = SeededDb
    /\ nextId = SeededIds
    /\ snapshot = db
    /\ needs_rollback = FALSE
    /\ pc = "idle"
    /\ runNo = 0
    /\ dry_run = FALSE
    /\ all_rows = <<>>
    /\ pos = 1
    /\ batch = <<>>
    /\ txi = 1
    /\ stats = ZeroStats
    /\ composer_cache = EmptyCache
    /\ country_cache = EmptyCache
    /\ instrumentation_cache = EmptyCache
    /\ commitFaults = 0
    /\ last = NoOp
    /\ txlog = [errors0 |-> 0, ops |-> <<>>]
    /\ log = <<>>
    /\ ingested = {}
    /\ cur = NoRun
    /\ prev = NoPrev
    /\ dedup = DedupIdle({}, FALSE)
    /\ web = WebIdle
    /\ util = NoCall

NextViews ==
    \/ \E p \in 1..MaxRequests : GetObject(p)
    \/ \E p \in 1..MaxRequests : UpdateViewCount(p)
    \/ \E row \in MergeRows : FindForMerge(row)
    \/ SaveMerged

SpecViews == InitViews /\ [][NextViews]_vars

\* ------------------------------------------------------------------------
\* Calls of the functions of utils.py on bounded arguments.
\* ------------------------------------------------------------------------
\* The names given to normalize_name and parse_composer_name: upper and
\* lower case, an accented letter, a combining accent, blanks and commas.
NameInputs == SeqsUpTo({"A", "a", "g", "a_acute", "acute", " ", ","}, MaxNameLen)

\* The values given to clean_year: digits on both sides of the range, the
\* letters and the dot of the qualifier, and the question mark; and None.
YearInputs == SeqsUpTo({"0", "1", "2", "c", "a", ".", "?"}, MaxYearLen) \cup {Absent}

\* re.sub(r'^(ca?\.?\s*)', '', year_str, flags=re.IGNORECASE)
StripQualifier(s) ==
    IF s = <<>> \/ Head(s) \notin {"c", "C"} THEN s
    ELSE LET r1 == Tail(s)
             r2 == IF r1 # <<>> /\ Head(r1) \in {"a", "A"} THEN Tail(r1) ELSE r1
             r3 == IF r2 # <<>> /\ Head(r2) = "." THEN Tail(r2) ELSE r2
         IN  LStrip(r3)

\* re.sub(r'[?*]$', '', year_str)
StripMark(s) ==
    IF s # <<>> /\ s[Len(s)] \in {"?", "*"} THEN SubSeq(s, 1, Len(s) - 1) ELSE s

\* The positions at which r'\d{4}' matches.
FourDigitsAt(s) ==
    { i \in 1..(Len(s) - 3) : \A k \in 0..3 : IsDigit(s[i + k]) }

\* re.search(r'\d{4}', year_str): the leftmost match, None when there is
\* none.
SearchFourDigits(s) ==
    IF FourDigitsAt(s) = {} THEN None
    ELSE LET i == CHOOSE i \in FourDigitsAt(s) : \A j \in FourDigitsAt(s) : i <= j
         IN  Some(SubSeq(s, i, i + 3))

\* utils.clean_year
clean_year(year_value) ==
    IF year_value = Absent \/ year_value = <<>> THEN None
    ELSE LET year_str == StripMark(StripQualifier(Strip(year_value)))
             match == SearchFourDigits(year_str)
         IN  IF match # None /\ 1000 <= IntOf(match[1]) /\ IntOf(match[1]) <= 2100
             THEN Some(IntOf(match[1]))
             ELSE None

\* A variant of parse_composer_name that splits at the last comma.
parse_composer_nameLastComma(full_name) ==
    IF full_name = <<>> THEN <<<<>>, <<>>, <<>>>>
    ELSE LET name == Strip(full_name)
         IN  IF Positions(name, ",") # {}
             THEN LET parts == SplitAt(name, Last(Positions(name, ",")))
                      last_name == Strip(parts[1])
                      first_name == Strip(parts[2])
                  IN  <<first_name, last_name, Strip(first_name \o <<" ">> \o last_name)>>
             ELSE IF Positions(name, " ") # {}
             THEN LET name_parts == SplitAt(name, Last(Positions(name, " ")))
                  IN  <<Strip(name_parts[1]), Strip(name_parts[2]), name>>
             ELSE <<<<>>, name, name>>

\* utils.parse_composer_name: <<first_name, last_name, full_name>>.
parse_composer_name(full_name) ==
    IF full_name = <<>> THEN <<<<>>, <<>>, <<>>>>
    ELSE LET name == Strip(full_name)
         IN  IF Positions(name, ",") # {}
             THEN LET parts == SplitAt(name, First(Positions(name, ",")))
                      last_name == Strip(parts[1])
                      first_name == Strip(parts[2])
                  IN  <<first_name, last_name, Strip(first_name \o <<" ">> \o last_name)>>
             ELSE IF Positions(name, " ") # {}
             THEN LET name_parts == SplitAt(name, Last(Positions(name, " ")))
                  IN  <<Strip(name_parts[1]), Strip(name_parts[2]), name>>
             ELSE <<<<>>, name, name>>

\* Everything but util.
utilFrame ==
    <<sheerpluck_file, imslp_file, db, nextId, snapshot, needs_rollback, pc,
      runNo, dry_run, all_rows, pos, batch, txi, stats, composer_cache,
      country_cache, instrumentation_cache, commitFaults, last, txlog, log,
      ingested, cur, prev, dedup, web>>

\* normalize_name(arg)
CallNormalizeName ==
    /\ util.fn = "none"
    /\ util.arg \in NameInputs
    /\ util' = [util EXCEPT !.fn = "normalize_name", !.result = normalize_name(util.arg)]
    /\ UNCHANGED utilFrame

\* normalize_name(normalize_name(arg))
CallNormalizeNameAgain ==
    /\ util.fn = "normalize_name"
    /\ util' = [util EXCEPT !.fn = "normalize_name twice", !.once = util.result,
                            !.result = normalize_name(util.result)]
    /\ UNCHANGED utilFrame

\* clean_year(arg)
CallCleanYear ==
    /\ util.fn = "none"
    /\ util.arg \in YearInputs
    /\ util' = [util EXCEPT !.fn = "clean_year", !.result = clean_year(util.arg)]
    /\ UNCHANGED utilFrame

\* parse_composer_name(arg)
CallParseComposerName ==
    /\ util.fn = "none"
    /\ util.arg \in NameInputs
    /\ util' = [util EXCEPT !.fn = "parse_composer_name",
                            !.result = parse_composer_name(util.arg)]
    /\ UNCHANGED utilFrame

InitUtils ==
    /\ sheerpluck_file = <<>>
    /\ imslp_file = <<>>
    /\ db = EmptyDb
    /\ nextId = FirstIds
    /\ snapshot = db
    /\ needs_rollback = FALSE
    /\ pc = "idle"
    /\ runNo = 0
    /\ dry_run = FALSE
    /\ all_rows = <<>>
    /\ pos = 1
    /\ batch = <<>>
    /\ txi = 1
    /\ stats = ZeroStats
    /\ composer_cache = EmptyCache
    /\ country_cache = EmptyCache
    /\ instrumentation_cache = EmptyCache
    /\ commitFaults = 0
    /\ last = NoOp
    /\ txlog = [errors0 |-> 0, ops |-> <<>>]
    /\ log = <<>>
    /\ ingested = {}
    /\ cur = NoRun
    /\ prev = NoPrev
    /\ dedup = DedupIdle({}, FALSE)
    /\ web = WebIdle
    /\ \E arg \in NameInputs \cup YearInputs : util = [NoCall EXCEPT !.arg = arg]

NextUtils ==
    \/ CallNormalizeName
    \/ CallNormalizeNameAgain
    \/ CallCleanYear
    \/ CallParseComposerName

SpecUtils == InitUtils /\ [][NextUtils]_vars

\* ------------------------------------------------------------------------
\* Properties of the import.
\* ------------------------------------------------------------------------
Range(f) == { f[i] : i \in DOMAIN f }

\* The run that has just ended read the rows the last completed import
\* before it read, and every batch of that import was committed.
SecondRunOverSameRows ==
    /\ pc = "done" /\ ~dry_run
    /\ prev.valid /\ prev.failed = 0
    /\ prev.all_rows = all_rows

\* C1: an import that follows a complete import of the same rows in which
\* no batch failed creates no Composer and no Work: its counters of
\* creations are zero and the store holds the records it held at its start.
C1_SecondRunCreatesNothing ==
    SecondRunOverSameRows =>
        /\ stats.composers_created = 0
        /\ stats.works_created = 0
        /\ Ids(db.composers) = cur.composers
        /\ Ids(db.works) = cur.works

\* A second run over the same rows that merged at least two rows into works
\* an earlier import of this behaviour created.
C1_Witness ==
    /\ SecondRunOverSameRows
    /\ stats.works_skipped >= 2
    /\ \E e \in ingested : e.kind = "created"

\* Two rows are sightings of one work: the composer name and birth year
\* and the title agree.
SameWork(r1, r2) ==
    /\ Strip(r1.Name) = Strip(r2.Name)
    /\ _parse_year(r1.BirthYear) = _parse_year(r2.BirthYear)
    /\ Strip(r1.Work) = Strip(r2.Work)

AppearsOnce(file, r) ==
    Cardinality({ k \in 1..Len(file) : SameWork(file[k], r) }) = 1

Resolved(r) == \E e \in ingested : e.row = r

Created(r) == \E e \in ingested : e.row = r /\ e.kind = "created"

\* A work that appears once in each source, with an id and a link in
\* Sheerpluck and a link and no id in IMSLP; both rows have been resolved in
\* committed batches.
InBothSources(s, i) ==
    /\ SameWork(s, i)
    /\ AppearsOnce(sheerpluck_file, s) /\ AppearsOnce(imslp_file, i)
    /\ Strip(s.ID) # <<>> /\ Strip(s.Link) # <<>>
    /\ Strip(i.ID) = <<>> /\ Strip(i.Link) # <<>>
    /\ Resolved(s) /\ Resolved(i)

\* The store holds one Work of the row's title and composer, and it carries
\* both links.
OneWorkWithBothLinks(s, i) ==
    \E c \in ComposerMatches(db, Strip(s.Name), _parse_year(s.BirthYear)) :
        /\ Cardinality(WorksByTitle(db, Strip(s.Work), c.id)) = 1
        /\ \A w \in WorksByTitle(db, Strip(s.Work), c.id) :
              /\ w.score_url = Some(Strip(s.Link))
              /\ w.imslp_url = Some(Strip(i.Link))

\* No Work of another title carries the row's id for the row's source.
IdIsOfThisWork(s) ==
    \A w \in WorksByExternalId(db, Strip(s.ID), s._source) : w.title = Strip(s.Work)

C2_WitnessSheerpluckFirst ==
    /\ pc = "done"
    /\ \E s \in Range(sheerpluck_file), i \in Range(imslp_file) :
          /\ InBothSources(s, i) /\ Created(s) /\ IdIsOfThisWork(s)
          /\ OneWorkWithBothLinks(s, i)

\* ------------------------------------------------------------------------
\* Properties of the deduplicator, under SpecDedup.
\* ------------------------------------------------------------------------
\* A run of the deduplicator has ended, destructive, and no other process
\* wrote a work during it.
QuietDestructiveRunDone ==
    dedup.pc = "done" /\ ~dedup.dry_run /\ dedup.written = {}

\* C3: a destructive run, with no other writer, leaves of the works it
\* found exactly those that have the lowest id of their (title, composer)
\* and changes none of them; a destructive run right after a destructive
\* run deletes nothing and counts zero deletions.
C3_KeepsLowestIdOnly ==
    QuietDestructiveRunDone =>
        /\ db.works = { w \in dedup.before :
                          \A v \in dedup.before : SameKey(v, w) => w.id <= v.id }
        /\ (dedup.prev.valid /\ ~dedup.prev.dry_run /\ dedup.prev.written = {})
              => dedup.total_deleted = 0 /\ db.works = dedup.before

\* A destructive run that deleted nothing has ended right after a
\* destructive run that deleted the two higher ids of a group of three.
C3_Witness ==
    /\ QuietDestructiveRunDone
    /\ dedup.prev.valid /\ ~dedup.prev.dry_run /\ dedup.prev.written = {}
    /\ dedup.prev.total_deleted = 2
    /\ Cardinality(db.works) = 1
    /\ \E w \in db.works : w.id = 1

\* C4: after a destructive run with no other writer no two works share a
\* (title, composer); and a destructive run that finds groups remaining
\* says so in a warning as its last message and ends, having gone through
\* the groups once and deleted nothing after the verification.
C4_NoGroupRemainsOrWarning ==
    (dedup.pc = "done" /\ ~dedup.dry_run) =>
        /\ dedup.written = {}
              => \A v, w \in db.works : SameKey(v, w) => v = w
        /\ dedup.passes = 1
        /\ dedup.remaining =
              Cardinality({ <<w.title, w.composer>> : w \in
                  { w \in db.works : \E v \in db.works : SameKey(v, w) /\ v # w } })
        /\ LET message == dedup.out[Len(dedup.out)]
           IN  IF dedup.remaining > 0
               THEN message = Message("warning", dedup.remaining)
               ELSE message = Message("none_remain", 0)

\* A destructive run deleted a group's duplicates, another process created
\* a duplicate meanwhile, and the run ended with the warning.
C4_Witness ==
    /\ dedup.pc = "done" /\ ~dedup.dry_run
    /\ dedup.total_deleted > 0
    /\ dedup.remaining > 0
    /\ dedup.out[Len(dedup.out)].kind = "warning"

\* C5: from the start of a dry run on, the works are the works the run
\* found, field by field, and those that other processes created since.
C5_DryRunKeepsWorks ==
    (dedup.dry_run /\ dedup.pc # "idle") =>
        db.works = dedup.before \cup dedup.written

\* A dry run over a store with duplicates has ended, having reported what
\* it would delete.
C5_Witness ==
    /\ dedup.pc = "done" /\ dedup.dry_run
    /\ dedup.total_groups > 0
    /\ \E k \in DOMAIN dedup.out : dedup.out[k].kind = "would_delete"
    /\ db.works = dedup.before

\* A batch of this run that was not committed.
Failed(entry) == entry.outcome # "committed"

\* C6 (as claimed): a failed batch leaves the writes of the batches
\* committed before it in place, and every later batch is resolved and
\* persisted as if the failed batch's rows had not been in the input: no
\* later batch is refused for a reference to a row that only the failed
\* batch had written.
C6_FailedBatchIsIsolated ==
    /\ pc = "loop" /\ log # <<>> /\ Failed(log[Len(log)]) => db = snapshot
    /\ \A j \in 1..Len(log) :
          Failed(log[j]) => log[j].dbAfter = log[j].dbBefore
    /\ \A j \in 1..Len(log) :
          (\E i \in 1..(j - 1) : Failed(log[i]))
              => log[j].cause # "foreign_key"

\* C7 (as claimed): when the resolution of a row of a batch raised, none of
\* the writes made for the batch's rows is committed.
C7_BatchIsAtomic ==
    \A j \in 1..Len(log) :
        (\E k \in 1..Len(log[j].ops) : log[j].ops[k].kind = "raised")
            => log[j].dbAfter = log[j].dbBefore

\* C8 (as claimed): a batch that is rolled back adds its number of rows to
\* the error count, and a row that raises in a batch that commits adds one.
C8_ErrorsCountRows ==
    \A j \in 1..Len(log) :
        IF Failed(log[j])
        THEN log[j].errorsAfter - log[j].errorsBefore = Len(log[j].rows)
        ELSE log[j].errorsAfter - log[j].errorsBefore =
                 Cardinality({ k \in 1..Len(log[j].ops) :
                                 log[j].ops[k].kind \in {"raised", "skipped"} })

\* C9 (as claimed): a step of row processing changes no death_year and no
\* country that a Composer holds, and saves a Composer or counts
\* composers_updated only when one of the two fields changed.
C9_ComposerMergeKeepsPopulated ==
    [][pc = "tx" /\ pc' = "tx" =>
        /\ \A c \in db.composers : \A d \in db'.composers :
              d.id = c.id =>
                  /\ c.death_year # None => d.death_year = c.death_year
                  /\ c.country # None => d.country = c.country
        /\ (stats'.composers_updated # stats.composers_updated
            \/ \E c \in db.composers : \E d \in db'.composers : d.id = c.id /\ d # c)
              => \E c \in db.composers : \E d \in db'.composers :
                    /\ d.id = c.id
                    /\ d.death_year # c.death_year \/ d.country # c.country
                    /\ stats'.composers_updated = stats.composers_updated + 1]_vars

\* The work that the last row was merged into, as it is now.
MergedWork == CHOOSE w \in db.works : w.id = last.work

\* The fields of a Work that hold a value keep it through a merge, apart
\* from the fields of the set `except`.
MergeKeeps(before, after, except) ==
    /\ after.id = before.id
    /\ after.composer = before.composer
    /\ after.title = before.title
    /\ after.data_source = before.data_source
    /\ after.needs_review = before.needs_review
    /\ after.is_verified = before.is_verified
    /\ after.view_count = before.view_count
    /\ before.external_id # <<>> => after.external_id = before.external_id
    /\ TruthyStr(before.imslp_url) => after.imslp_url = before.imslp_url
    /\ TruthyStr(before.score_url) => after.score_url = before.score_url
    /\ ("instrumentation_category" \notin except
        /\ before.instrumentation_category # None)
          => after.instrumentation_category = before.instrumentation_category
    /\ "updated_at" \notin except => after.updated_at = before.updated_at

\* C10 (as claimed): a merge changes no field of the Work that held a value,
\* except instrumentation_detail, which takes the row's instrumentation.
C10_MergeKeepsAllButDetail ==
    last.kind = "merged" =>
        /\ MergeKeeps(last.before, MergedWork, {})
        /\ MergedWork.instrumentation_detail = Strip(last.row.Instrumentation)

\* C10 (amended): a merge changes no field of the Work that held a value,
\* except instrumentation_detail and instrumentation_category, which take
\* the row's instrumentation (the category is null exactly when the row has
\* none), and the timestamp updated_at, which the save sets.
C10_MergeKeepsAllButInstrumentation ==
    last.kind = "merged" =>
        /\ MergeKeeps(last.before, MergedWork, {"instrumentation_category", "updated_at"})
        /\ MergedWork.instrumentation_detail = Strip(last.row.Instrumentation)
        /\ MergedWork.instrumentation_category = None
              <=> Strip(last.row.Instrumentation) = <<>>
        /\ MergedWork.updated_at = Now

\* A row with another id and another link was merged into a work that held
\* an id, a score link and a category; the row had no instrumentation.
C10_Witness ==
    /\ last.kind = "merged"
    /\ last.before.external_id # <<>>
    /\ last.before.external_id # Strip(last.row.ID)
    /\ TruthyStr(last.before.score_url)
    /\ Some(Strip(last.row.Link)) # last.before.score_url
    /\ last.row._source = "sheerpluck"
    /\ last.before.instrumentation_category # None
    /\ MergedWork.instrumentation_category = None

\* ------------------------------------------------------------------------
\* Properties of work resolution and of the run, under Spec.
\* ------------------------------------------------------------------------
\* A step of row processing that merged the row into a work or created one.
RowResolved == pc = "tx" /\ pc' = "tx" /\ last'.kind \in {"merged", "created"}

\* The works of the store before the step that carry the row's id for the
\* row's source; none when the row has no id.
MatchedById(row) ==
    IF Strip(row.ID) = <<>> THEN {}
    ELSE { w \in db.works :
             w.external_id = Strip(row.ID) /\ w.data_source = row._source }

\* C11: a row with an id that a Work of the row's source carries is merged
\* into such a Work, whatever Work has the row's title, and no Work is
\* created; otherwise the row is merged into a Work of its title and of the
\* composer it resolved to, and a Work is created only when there is none.
C11_ExternalIdMatchFirst ==
    [][RowResolved =>
        LET row == last'.row
        IN  IF MatchedById(row) # {}
            THEN /\ last'.kind = "merged"
                 /\ last'.before \in MatchedById(row)
                 /\ Ids(db'.works) = Ids(db.works)
            ELSE IF last'.kind = "merged"
            THEN /\ last'.before \in db.works
                 /\ last'.before.title = Strip(row.Work)
                 /\ \A c \in db'.composers :
                       c.id = last'.before.composer
                           => /\ c.full_name = Strip(row.Name)
                              /\ c.birth_year = _parse_year(row.BirthYear)
                 /\ Ids(db'.works) = Ids(db.works)
            ELSE \E w \in db'.works :
                    /\ w.id = last'.work /\ w.id \notin Ids(db.works)
                    /\ Ids(db'.works) = Ids(db.works) \cup {w.id}
                    /\ w.title = Strip(row.Work)
                    /\ ~\E v \in db.works : v.title = w.title /\ v.composer = w.composer
    ]_vars

\* A row was merged into the Work that carries its id, of another title,
\* while another Work has the row's title and composer.
C11_Witness ==
    /\ last.kind = "merged"
    /\ Strip(last.row.ID) # <<>>
    /\ last.before.external_id = Strip(last.row.ID)
    /\ last.before.title # Strip(last.row.Work)
    /\ \E w \in db.works, c \in ComposerMatches(db, Strip(last.row.Name), _parse_year(last.row.BirthYear)) :
          w.id # last.work /\ w.title = Strip(last.row.Work) /\ w.composer = c.id

\* The key the rows are to be sorted by: the normalized composer name and
\* the lowercase title.
NormalizedSortKey(row) == <<normalize_name(row.Name), Lower(row.Work)>>

\* C12 (as claimed), under SpecNames: the rows of a run are in ascending
\* order of (normalize_name(Name), lowercase(Work)), whatever the order of
\* the rows in the files.
C12_SortedByNormalizedName ==
    \A i, j \in 1..Len(all_rows) :
        i < j => ~KeyLess(NormalizedSortKey(all_rows[j]), NormalizedSortKey(all_rows[i]))

\* The number of occurrences of row r in the sequence s.
Occurrences(s, r) == Cardinality({ i \in 1..Len(s) : s[i] = r })

\* The sequences s and t hold the same rows, each as many times.
SameRows(s, t) ==
    /\ Len(s) = Len(t)
    /\ \A i \in 1..Len(s) : Occurrences(s, s[i]) = Occurrences(t, s[i])

\* What C13 says of a run that starts with exactly one file missing: the run
\* goes on with the rows of the other file and none of the missing one.
ContinuesWithOther(sheerpluck_exists) ==
    /\ pc' = "loop"
    /\ SameRows(all_rows', IF sheerpluck_exists THEN sheerpluck_file ELSE imslp_file)
    /\ stats'.sheerpluck_rows = (IF sheerpluck_exists THEN Len(sheerpluck_file) ELSE 0)
    /\ stats'.imslp_rows = (IF sheerpluck_exists THEN 0 ELSE Len(imslp_file))

\* What C13 says of a run that aborts: no batch is processed, no Composer and
\* no Work is created or updated, and nothing follows but another run.
AbortsBeforeAnyBatch ==
    /\ pc' = "failed"
    /\ db'.composers = db.composers
    /\ db'.works = db.works
    /\ log' = <<>>
    /\ stats'.total_rows = 0

\* Every step after an abort is the start of another run, and a run that
\* ends has passed over every row it loaded.
AbortIsFinal ==
    /\ pc = "failed" => runNo' = runNo + 1
    /\ pc' = "done" => pos' = Len(all_rows') + 1

\* C13 (as claimed): a run with exactly one file missing continues with all
\* rows of the other file, and a run with both files missing aborts before
\* any batch and writes no Composer and no Work.
C13_OneMissingContinues ==
    [][/\ \A d, se, ie \in BOOLEAN :
            (runNo' = runNo + 1 /\ StartRun(d, se, ie)) =>
                /\ (se # ie) => ContinuesWithOther(se)
                /\ (~se /\ ~ie) => AbortsBeforeAnyBatch
       /\ AbortIsFinal
    ]_vars

\* C13 (amended): a run with exactly one file missing continues with all rows
\* of the other file if that file holds at least one row; a run that loads
\* no row at all (both files missing, or every file that exists empty)
\* aborts before any batch and writes no Composer and no Work.
C13_OneMissingContinuesIfOtherHasRows ==
    [][/\ \A d, se, ie \in BOOLEAN :
            (runNo' = runNo + 1 /\ StartRun(d, se, ie)) =>
                LET other == IF se THEN sheerpluck_file ELSE imslp_file
                IN  /\ (se # ie /\ other # <<>>) => ContinuesWithOther(se)
                    /\ ((~se /\ ~ie) \/ (se # ie /\ other = <<>>)) => AbortsBeforeAnyBatch
       /\ AbortIsFinal
    ]_vars

\* A run in which the Sheerpluck file, which holds rows, was missing, and
\* which has processed a batch of IMSLP rows.
C13_Witness ==
    /\ pc = "loop" /\ ~dry_run /\ pos > 1 /\ log # <<>>
    /\ sheerpluck_file # <<>>
    /\ stats.sheerpluck_rows = 0
    /\ stats.imslp_rows > 0
    /\ \A i \in 1..Len(all_rows) : all_rows[i]._source = "imslp"

\* ------------------------------------------------------------------------
\* Properties of rows without a name or a title, under SpecNames.
\* ------------------------------------------------------------------------
\* The row that the step processes has an empty composer name or an empty
\* title once blanks are stripped.
RequiredFieldMissing(row) == Strip(row.Name) = <<>> \/ Strip(row.Work) = <<>>

\* The rows of the batches processed so far, in the order of processing.
RECURSIVE ProcessedRows(_)
ProcessedRows(batches) ==
    IF batches = <<>> THEN <<>>
    ELSE [i \in 1..Len(Head(batches).ops) |-> Head(batches).ops[i].row]
             \o ProcessedRows(Tail(batches))

\* C14, under SpecNames: a row with an empty composer name or an empty title
\* writes nothing to the store (no Country, Composer, InstrumentationCategory
\* or Work is created or changed, no id is taken, no cache is filled), adds
\* one to errors and to no other counter, and the rows after it in its batch
\* and in later batches are processed: the batch goes on with the next row,
\* and a run that ends has processed every row it loaded.
C14_EmptyRowIsSkipped ==
    [][/\ (pc = "tx" /\ pc' = "tx" /\ txi' = txi + 1 /\ RequiredFieldMissing(batch[txi])) =>
            /\ db' = db
            /\ nextId' = nextId
            /\ UNCHANGED cacheVars
            /\ stats' = [stats EXCEPT !.errors = @ + 1]
            /\ last'.kind = "skipped"
            /\ needs_rollback' = needs_rollback
            /\ batch' = batch
       /\ (pc' = "done" /\ ~dry_run') =>
            /\ ProcessedRows(log') = all_rows'
            /\ stats'.total_rows = Len(all_rows')
    ]_vars

\* A row with a blank name, a country and an instrumentation was skipped
\* first in its batch, the row after it created a work, and the batch
\* committed.
C14_Witness ==
    /\ log # <<>>
    /\ LET b == log[Len(log)]
       IN  /\ b.outcome = "committed"
           /\ Len(b.ops) = 2
           /\ b.ops[1].kind = "skipped"
           /\ Strip(b.ops[1].row.Name) = <<>>
           /\ b.ops[1].row.Country # <<>>
           /\ b.ops[2].kind = "created"
           /\ b.dbAfter.countries = {}
           /\ b.errorsAfter = b.errorsBefore + 1

\* ------------------------------------------------------------------------
\* The end of the run, under SpecNamesLive.
\* ------------------------------------------------------------------------
\* The run has loaded at least one row.
LoadedRows == runNo > 0 /\ stats.sheerpluck_rows + stats.imslp_rows > 0

\* _print_stats has printed the counters of the run.
SummaryPrinted == pc = "done"

\* C15 (as claimed), under SpecNamesLive: every run that has loaded at least
\* one row eventually prints the end-of-run summary.
C15_RunReachesSummary == LoadedRows ~> SummaryPrinted

\* ------------------------------------------------------------------------
\* Properties of composer resolution from an empty store, under SpecNames.
\* ------------------------------------------------------------------------
\* The identity key of a Composer: utils.deduplicate_composer_key takes the
\* normalized full name and the birth year.
IdentityKey(c) == <<normalize_name(c.full_name), c.birth_year>>

\* C16 (as claimed), under SpecNames: no two Composer records share the
\* identity key (normalized full name, birth year).
C16_ComposerIdentityKeyUnique ==
    \A c1, c2 \in db.composers : IdentityKey(c1) = IdentityKey(c2) => c1.id = c2.id

\* Every entry of a cache was stored after one query of the store for its
\* key (lines 343, 354, 365), so the entries of a cache are the queries of
\* the run that were answered.
ClaimedComposerKey(cache_key) == deduplicate_composer_key(cache_key[1], cache_key[2])

\* C17 (as claimed), under SpecNames: within one run the store is queried at
\* most once per composer key normalize_name(full_name) + "_" + (birth year
\* or "unknown"), so no two entries of the composer cache have one such key,
\* and resolutions of one key return one entity; and the entries of the
\* country and instrumentation caches name entities of the cached name.
C17_OneQueryPerKey ==
    /\ \A k1, k2 \in DOMAIN composer_cache :
           ClaimedComposerKey(k1) = ClaimedComposerKey(k2) =>
               k1 = k2 /\ composer_cache[k1] = composer_cache[k2]
    /\ \A n \in DOMAIN country_cache :
           \A c \in db.countries : c.id = country_cache[n] => c.name = n
    /\ \A n \in DOMAIN instrumentation_cache :
           \A c \in db.categories : c.id = instrumentation_cache[n] => c.name = n

\* ------------------------------------------------------------------------
\* Review flags, under Spec.
\* ------------------------------------------------------------------------
\* Of the records `after` of a table whose records were `before`: each new
\* one needs review and is not verified, and none has become verified.
FlagsKept(before, after) ==
    \A r \in after :
        /\ r.id \notin Ids(before) => (r.needs_review /\ ~r.is_verified)
        /\ \A old \in before : old.id = r.id => (r.is_verified => old.is_verified)

\* C18, under Spec: every Composer and every Work that a step of ingestion
\* creates has needs_review true and is_verified false, and no step of
\* ingestion, creation or merge, makes is_verified true on a record.
C18_CreatedNeedReviewNeverVerified ==
    [][FlagsKept(db.composers, db'.composers) /\ FlagsKept(db.works, db'.works)]_vars

\* A row has been merged into a verified work of the store, which is still
\* verified, and the run has created a work, which needs review.
C18_Witness ==
    /\ pc = "tx"
    /\ last.kind = "merged"
    /\ last.before.is_verified
    /\ \E w \in db.works : w.id = last.work /\ w.is_verified /\ w.updated_at = Now
    /\ \E w \in db.works : w.id \notin cur.works /\ w.needs_review /\ ~w.is_verified

\* C19 (as claimed), under SpecNames: the is_living stored on a Composer that
\* a step of ingestion creates is is_living_composer of its birth and death
\* years, the parsed years of the row.
C19_IsLivingIsLikelyLiving ==
    [][\A c \in db'.composers :
          c.id \notin Ids(db.composers) =>
              c.is_living = is_living_composer(c.birth_year, c.death_year)
    ]_vars

\* ------------------------------------------------------------------------
\* The view counter, under SpecViews.
\* ------------------------------------------------------------------------
\* The view_count of the work with this id in a table of works.
ViewCount(works, id) == (CHOOSE w \in works : w.id = id).view_count

\* No request and no merge is in flight.
Quiescent(wb) ==
    /\ \A p \in 1..MaxRequests : wb.requests[p].pc = "idle"
    /\ wb.merge.pc = "idle"

\* C20 (as claimed), under SpecViews: under any interleaving of work-detail
\* retrievals and merges of the same Work, view_count never decreases, a
\* merge does not change it, and when nothing is in flight it is its initial
\* value plus the number of completed retrievals.
C20_ViewCountCountsRetrievals ==
    [][\A id \in Ids(db.works) :
          /\ ViewCount(db'.works, id) >= ViewCount(db.works, id)
          /\ web'.merged # web.merged => ViewCount(db'.works, id) = ViewCount(db.works, id)
          /\ Quiescent(web') =>
                ViewCount(db'.works, id) = ViewCount(SeededDb.works, id) + web'.retrieved
    ]_vars

\* ------------------------------------------------------------------------
\* Properties of the functions of utils.py, under SpecUtils.
\* ------------------------------------------------------------------------
IsUpper(c) == c \in {"A", "T"}

\* Lowercase ASCII with no blank at either end.
IsNormalized(s) ==
    /\ \A i \in 1..Len(s) : IsAscii(s[i]) /\ ~IsUpper(s[i])
    /\ s # <<>> => ~IsSpace(s[1]) /\ ~IsSpace(s[Len(s)])

\* C21, under SpecUtils: normalize_name is idempotent, its result is
\* lowercase ASCII with no leading or trailing whitespace, and the empty
\* name gives the empty result.
C21_NormalizeNameIdempotent ==
    /\ util.fn = "normalize_name" =>
          /\ IsNormalized(util.result)
          /\ util.arg = <<>> => util.result = <<>>
    /\ util.fn = "normalize_name twice" =>
          /\ util.result = util.once
          /\ util.once = normalize_name(util.arg)

\* normalize_name has been applied twice to a name with an upper case
\* letter, an accented letter and a blank at its end, which the first call
\* changed.
C21_Witness ==
    /\ util.fn = "normalize_name twice"
    /\ util.arg = <<"A", "a_acute", " ">>
    /\ util.once = <<"a", "a">>
    /\ util.result = <<"a", "a">>

\* The maximal run of digits of s that starts at position i, if one does.
RunAt(s, i) ==
    IF IsDigit(s[i]) /\ (i = 1 \/ ~IsDigit(s[i - 1]))
    THEN LET j == CHOOSE j \in i..Len(s) :
                      /\ \A k \in i..j : IsDigit(s[k])
                      /\ (j = Len(s) \/ ~IsDigit(s[j + 1]))
         IN  Some(SubSeq(s, i, j))
    ELSE None

\* The positions at which a maximal run of exactly four digits starts.
RunsOfFour(s) == { i \in 1..Len(s) : RunAt(s, i) # None /\ Len(RunAt(s, i)[1]) = 4 }

\* What C22 says clean_year returns: with the qualifier and the trailing
\* mark removed, the first run of exactly four digits if it lies in
\* [1000, 2100], and no value for every other input.
ClaimedYear(year_value) ==
    IF year_value = Absent THEN None
    ELSE LET s == StripMark(StripQualifier(Strip(year_value)))
         IN  IF RunsOfFour(s) = {} THEN None
             ELSE LET i == CHOOSE i \in RunsOfFour(s) : \A j \in RunsOfFour(s) : i <= j
                      year == IntOf(SubSeq(s, i, i + 3))
                  IN  IF 1000 <= year /\ year <= 2100 THEN Some(year) ELSE None

\* C22 (as claimed), under SpecUtils: clean_year returns the first run of
\* exactly four digits if it lies in [1000, 2100], and no value for every
\* other input.
C22_CleanYearExactlyFourDigits ==
    util.fn = "clean_year" => util.result = ClaimedYear(util.arg)

\* The three rules of C23 applied to the text s, the parts as they stand or
\* trimmed of blanks.
ThreeRules(s, trimmed) ==
    LET T(x) == IF trimmed THEN Strip(x) ELSE x
    IN  IF Positions(s, ",") # {}
        THEN LET i == First(Positions(s, ","))
                 last_name == T(SubSeq(s, 1, i - 1))
                 first_name == T(SubSeq(s, i + 1, Len(s)))
             IN  <<first_name, last_name, Strip(first_name \o <<" ">> \o last_name)>>
        ELSE IF Positions(s, " ") # {}
        THEN LET i == Last(Positions(s, " "))
             IN  <<T(SubSeq(s, 1, i - 1)), T(SubSeq(s, i + 1, Len(s))), s>>
        ELSE <<<<>>, s, s>>

\* The first and last name that ingestion stores on the Composer it creates
\* for a row with this name.
StoredNames(name) ==
    LET c == NewComposer(1, Strip(name), None, None, None, "sheerpluck", 0)
    IN  <<c.first_name, c.last_name>>

\* C23 (as claimed), under SpecUtils: parse_composer_name splits every
\* non-empty name by the three rules, and the first and last name ingestion
\* stores on a new Composer are the function's.
C23_ParseByThreeRules ==
    (util.fn = "parse_composer_name" /\ util.arg # <<>>) =>
        /\ util.result = ThreeRules(util.arg, FALSE)
        /\ Strip(util.arg) # <<>> =>
              StoredNames(util.arg) = <<util.result[1], util.result[2]>>

\* C23 (amended), under SpecUtils: parse_composer_name splits every
\* non-empty name, trimmed of leading and trailing whitespace, by the three
\* rules, each part trimmed as well; and the first and last name ingestion
\* stores on a new Composer are the function's.
C23_ParseTrimmedByThreeRules ==
    (util.fn = "parse_composer_name" /\ util.arg # <<>>) =>
        /\ util.result = ThreeRules(Strip(util.arg), TRUE)
        /\ Strip(util.arg) # <<>> =>
              StoredNames(util.arg) = <<util.result[1], util.result[2]>>

\* parse_composer_name has split a name with two commas at the first.
C23_Witness ==
    /\ util.fn = "parse_composer_name"
    /\ util.arg = <<"a", ",", ",">>
    /\ util.result = <<<<",">>, <<"a">>, <<",", " ", "a">>>>
    /\ StoredNames(util.arg) = <<<<",">>, <<"a">>>>

\* ------------------------------------------------------------------------
\* Properties of the fields filled by a merge, under SpecFill.
\* ------------------------------------------------------------------------
\* The rows of the run that resolve to the composer c.
RowsOf(c) ==
    { i \in 1..Len(all_rows) :
        /\ Strip(all_rows[i].Name) = c.full_name
        /\ _parse_year(all_rows[i].BirthYear) = c.birth_year }

\* C24 (as claimed), under SpecFill: at the end of a run a Composer has a
\* null country only if no row that resolved to it supplied a country, and
\* a null death_year only if no such row supplied a death year, whether the
\* rows found the Composer in the store or in the cache.
C24_NullFieldsFilledInRun ==
    (pc = "done" /\ ~dry_run) =>
        \A c \in db.composers :
            /\ c.country = None =>
                  \A i \in RowsOf(c) : Strip(all_rows[i].Country) = <<>>
            /\ c.death_year = None =>
                  \A i \in RowsOf(c) : _parse_year(all_rows[i].DeathYear) = None

\* C25 (as claimed), under SpecFill: no Composer of the store has both a
\* death_year and is_living = true.
C25_LivingHasNoDeathYear ==
    \A c \in db.composers : ~(c.death_year # None /\ c.is_living)

\* ------------------------------------------------------------------------
\* Caches and counters after rollbacks, under Spec.
\* ------------------------------------------------------------------------
\* Every entry of the three caches names a row of its table.
CachedEntitiesExist ==
    /\ \A k \in DOMAIN composer_cache : composer_cache[k] \in Ids(db.composers)
    /\ \A k \in DOMAIN country_cache : country_cache[k] \in Ids(db.countries)
    /\ \A k \in DOMAIN instrumentation_cache :
           instrumentation_cache[k] \in Ids(db.categories)

\* C26 (as claimed), under Spec: between the batches of a run, and so after
\* any rollback, every cache entry names an entity of the store; no Work of
\* the store names a Composer that is not in it, and no batch fails for a
\* reference to an entity that was not persisted.
C26_CachesSurviveRollback ==
    /\ pc = "loop" => CachedEntitiesExist
    /\ \A w \in db.works : w.composer \in Ids(db.composers)
    /\ \A j \in 1..Len(log) : log[j].cause # "foreign_key"

\* C27 (as claimed), under Spec: at the end of a run works_created and
\* composers_created are the numbers of Work and Composer records that the
\* run added to the store.
C27_CreatedCountersAreReal ==
    (pc = "done" /\ ~dry_run) =>
        /\ stats.works_created = Cardinality(Ids(db.works) \ cur.works)
        /\ stats.composers_created = Cardinality(Ids(db.composers) \ cur.composers)

\* The sum of the three counters of row outcomes.
Outcomes(st) == st.works_created + st.works_skipped + st.errors

\* The commit of no batch of the run was refused.
NoBatchFailure(batches) == \A j \in 1..Len(batches) : batches[j].outcome # "commit_error"

\* C28, under Spec: in a normal run each processed row adds one to exactly
\* one of works_created, works_skipped and errors; a merge adds to
\* works_skipped and not to works_created; and at the end of a run in which
\* no batch failed total_rows = works_created + works_skipped + errors.
C28_OneOutcomePerRow ==
    [][/\ (pc = "tx" /\ pc' = "tx") =>
            /\ Outcomes(stats') = Outcomes(stats) + 1
            /\ stats'.works_created >= stats.works_created
            /\ stats'.works_skipped >= stats.works_skipped
            /\ stats'.errors >= stats.errors
            /\ last'.kind = "merged" =>
                  /\ stats'.works_skipped = stats.works_skipped + 1
                  /\ stats'.works_created = stats.works_created
       /\ (pc' = "done" /\ ~dry_run' /\ NoBatchFailure(log')) =>
            stats'.total_rows = Outcomes(stats')
    ]_vars

\* A run of three rows has ended with no batch failure, having created a
\* work, merged a row into a work and counted a row as an error.
C28_Witness ==
    /\ pc = "done" /\ ~dry_run /\ NoBatchFailure(log)
    /\ stats.total_rows = 3
    /\ stats.works_created = 1
    /\ stats.works_skipped = 1
    /\ stats.errors = 1

\* The rows of the j-th batch of a run: batch_size rows of the sorted rows,
\* fewer in the last batch.
BatchRows(j) ==
    SubSeq(all_rows, (j - 1) * BatchSize + 1,
           IF j * BatchSize <= Len(all_rows) THEN j * BatchSize ELSE Len(all_rows))

\* C29, under Spec: in a normal run the batches are consecutive slices of
\* the sorted rows, each of batch_size rows but the last, which holds from
\* one to batch_size rows; every row of a batch is handed to row processing
\* once, in order; a batch is under way only after every batch before it
\* has committed or rolled back; and at the end every row has been in one
\* batch.
C29_SequentialFullBatches ==
    (~dry_run /\ pc \in {"loop", "tx", "done"}) =>
        /\ \A j \in 1..Len(log) :
              /\ log[j].rows = BatchRows(j)
              /\ Len(log[j].rows) >= 1
              /\ Len(log[j].rows) <= BatchSize
              /\ j < Len(log) => Len(log[j].rows) = BatchSize
              /\ Len(log[j].ops) = Len(log[j].rows)
              /\ \A k \in 1..Len(log[j].ops) : log[j].ops[k].row = log[j].rows[k]
              /\ log[j].outcome \in {"committed", "rolled_back", "commit_error"}
        /\ pc = "tx" =>
              /\ batch = BatchRows(Len(log) + 1)
              /\ batch # <<>>
              /\ \A j \in 1..Len(log) : Len(log[j].rows) = BatchSize
              /\ \A k \in 1..Len(txlog.ops) : txlog.ops[k].row = batch[k]
              /\ txi = Len(txlog.ops) + 1
        /\ pc = "done" => ProcessedRows(log) = all_rows

\* A run of three rows has ended after two batches, the first of batch_size
\* rows and not committed, the second of one row.
C29_Witness ==
    /\ pc = "done" /\ ~dry_run
    /\ Len(all_rows) = BatchSize + 1
    /\ Len(log) = 2
    /\ Len(log[1].rows) = BatchSize
    /\ log[1].outcome # "committed"
    /\ Len(log[2].rows) = 1

\* ------------------------------------------------------------------------
\* The summary of the deduplicator's preview, under SpecDedup.
\* ------------------------------------------------------------------------
\* The records a destructive run deletes from a store of works: in each
\* group of works of one (title, composer), all but one.
WouldDelete(works) ==
    Cardinality(works) - Cardinality({ <<w.title, w.composer>> : w \in works })

\* C30 (as claimed), under SpecDedup: the summary of a dry run, with no
\* other writer, reports the number of records that a destructive run on the
\* same store would delete.
C30_PreviewReportsPlannedDeletions ==
    (dedup.pc = "done" /\ dedup.dry_run /\ dedup.written = {}) =>
        dedup.out[Len(dedup.out)] = Message("dry_run", WouldDelete(dedup.before))

====
